---- MODULE Spec2Model ----
(***************************************************************************)
(* Model of the Google Analytics agent (src/src/agent/analytics_agent.py): *)
(* the MCP client, the rule-based AnalyticsIntelligence engine, the report *)
(* renderer and AnalyticsAgent.run_comprehensive_analysis.                 *)
(*                                                                         *)
(* Representation.                                                         *)
(*  - A Python dict is a TLA+ function; "key in d" is key \in DOMAIN d and *)
(*    d.get(key, default) is Get(d, key, default).                         *)
(*  - Counts (sessions, average_session_duration) are integers.  Rates     *)
(*    (pages_per_session, bounce_rate, channel percentages) are floats     *)
(*    with two decimals in the source and are kept in hundredths, so 2.0   *)
(*    is 200 and 70 is 7000.                                               *)
(*  - A rendered text is the sequence of its lines (the argument of        *)
(*    "\n".join); a line is [fmt, text, num]: the f-string it comes from,  *)
(*    its string argument and its numeric argument.  Emoji prefixes of the *)
(*    literal lines are left out of the strings.                           *)
(***************************************************************************)
EXTENDS Integers, Sequences, FiniteSets, TLC

VARIABLES
    available_tools,     \* MCPClient.available_tools: names of the discovered tools
    last_analysis_data,  \* AnalyticsAgent.last_analysis_data: family -> response
    pc,                  \* position of the agent inside its current operation
    all_insights,        \* local all_insights of run_comprehensive_analysis
    calls,               \* the call_tool invocations of the current run, in order
    result,              \* value returned by the last run_comprehensive_analysis
    snapshot,            \* input of the evaluators (pure-function specification)
    traffic_insights,    \* analyze_traffic_metrics(snapshot)
    engagement_insights, \* analyze_engagement_metrics(snapshot)
    sources_insights,    \* analyze_traffic_sources(snapshot)
    report,              \* generate_summary_report output (pure-function specifications)
    phase,               \* "input" | "evaluated" (pure-function specifications)
    clock,               \* the day datetime.now() falls on, in days since 1970-01-01
    called_on,           \* the day on which the operation in progress was called
    window,              \* locals <<start_date, end_date>> of run_comprehensive_analysis
    in_flight,           \* requests sent to the server and not answered yet
    question,            \* argument of the last answer_question
    answer,              \* value returned by the last answer_question
    use_mock_data,       \* field of the demo WebsiteAnalyzerAgent
    fetches,             \* the fetch_data calls made so far, with what each returned
    served,              \* the last tool call handled by GAMCPServer.handle_tool_call
    argv,                \* sys.argv[1:] of main.py
    mode,                \* argument of start_agent: "analyze" | "interactive"
    input_line,          \* the line read by input() in the turn in progress
    server_process,      \* "none" | "running" | "terminated"
    exit_status,         \* "running" | "returned" | "exit_1" | "exception"
    printed,             \* messages main has printed about its arguments
    closed               \* number of agent.close() calls

vars == <<available_tools, last_analysis_data, pc, all_insights, calls, result,
          snapshot, traffic_insights, engagement_insights, sources_insights,
          report, phase, clock, called_on, window, in_flight, question, answer,
          use_mock_data, fetches, served, argv, mode, input_line, server_process,
          exit_status, printed, closed>>

fetchVars == <<use_mock_data, fetches>>

mainVars == <<argv, mode, input_line, server_process, exit_status, printed, closed>>

envVars == <<served, mainVars>>

\* What a turn of the interactive loop leaves alone: everything of main but the line read.
runVars == <<served, argv, mode, server_process, exit_status, printed, closed>>

agentVars == <<available_tools, last_analysis_data, pc, all_insights, calls, result,
               clock, called_on, window, in_flight, question, answer>>
pureVars == <<snapshot, traffic_insights, engagement_insights, sources_insights,
              report, phase>>

-----------------------------------------------------------------------------
(* Python helpers *)

EmptyDict == <<>>

Get(d, key, default) == IF key \in DOMAIN d THEN d[key] ELSE default

RECURSIVE Flatten(_)
Flatten(seqs) == IF seqs = <<>> THEN <<>> ELSE Head(seqs) \o Flatten(Tail(seqs))

Take(s, n) == SubSeq(s, 1, IF Len(s) < n THEN Len(s) ELSE n)

-----------------------------------------------------------------------------
(* Thresholds of the rule table *)

LowSessions == 500
HighSessions == 1000
MinPagesPerSession == 200
HighBounceRate == 7000
GoodBounceRate == 4000
MinSessionDuration == 60
MaxOrganicSearch == 7000
MinDirect == 2000
MinSocial == 1000
TopRecommendations == 5

-----------------------------------------------------------------------------
(* Insight records *)

Insight(type, title, tmpl, val, severity, recommendations, data_source, confidence) ==
    [type |-> type, title |-> title,
     description |-> [tmpl |-> tmpl, val |-> val],
     severity |-> severity, recommendations |-> recommendations,
     data_source |-> data_source, confidence |-> confidence]

\* Faulty variant: the insight carries a severity outside the four tags.
LowTrafficVolumeUntagged(sessions) ==
    Insight("alert", "Low Traffic Volume",
            "Website received only {sessions} sessions. This is below typical benchmarks.",
            sessions, "urgent",
            <<"Implement SEO optimization to improve organic search visibility",
              "Consider paid advertising campaigns to drive more traffic",
              "Analyze and improve content marketing strategy",
              "Check for technical issues that might be affecting site accessibility">>,
            "traffic_metrics", 80)

LowTrafficVolume(sessions) ==
    Insight("alert", "Low Traffic Volume",
            "Website received only {sessions} sessions. This is below typical benchmarks.",
            sessions, "high",
            <<"Implement SEO optimization to improve organic search visibility",
              "Consider paid advertising campaigns to drive more traffic",
              "Analyze and improve content marketing strategy",
              "Check for technical issues that might be affecting site accessibility">>,
            "traffic_metrics", 80)

StrongTrafficPerformance(sessions) ==
    Insight("performance", "Strong Traffic Performance",
            "Website achieved {sessions} sessions, indicating good traffic performance.",
            sessions, "low",
            <<"Maintain current marketing strategies",
              "Consider scaling successful campaigns",
              "Focus on conversion optimization to maximize the high traffic">>,
            "traffic_metrics", 90)

LowPageEngagement(pages_per_session) ==
    Insight("optimization", "Low Page Engagement",
            "Average of {pages_per_session} pages per session suggests users aren't exploring the site deeply.",
            pages_per_session, "medium",
            <<"Improve internal linking between related content",
              "Add 'related articles' or 'you might also like' sections",
              "Review and optimize page loading speeds",
              "Enhance navigation menu and site structure">>,
            "traffic_metrics", 70)

HighBounceRateInsight(bounce_rate) ==
    Insight("alert", "High Bounce Rate",
            "Bounce rate of {bounce_rate}% is concerning and indicates users are leaving quickly.",
            bounce_rate, "high",
            <<"Improve page loading speed (target <3 seconds)",
              "Ensure content matches user expectations from search results",
              "Enhance page design and user experience",
              "Add clear calls-to-action to guide user behavior",
              "Review mobile responsiveness and mobile user experience">>,
            "engagement_metrics", 90)

GoodUserEngagement(bounce_rate) ==
    Insight("performance", "Good User Engagement",
            "Bounce rate of {bounce_rate}% indicates good user engagement.",
            bounce_rate, "low",
            <<"Continue current content and UX strategies",
              "Identify top-performing pages and replicate their success factors">>,
            "engagement_metrics", 80)

ShortSessionDuration(avg_duration) ==
    Insight("optimization", "Short Session Duration",
            "Average session duration of {avg_duration} seconds suggests limited engagement.",
            avg_duration, "medium",
            <<"Add more engaging, interactive content",
              "Improve content readability and structure",
              "Include videos, images, and other media to increase engagement",
              "Create compelling content that encourages further exploration">>,
            "engagement_metrics", 70)

HighOrganicDependency(organic_search) ==
    Insight("alert", "High Dependency on Organic Search",
            "{organic_search}% of traffic comes from organic search. This creates vulnerability to search algorithm changes.",
            organic_search, "medium",
            <<"Diversify traffic sources through social media marketing",
              "Invest in email marketing campaigns",
              "Consider paid advertising to reduce organic dependency",
              "Build direct traffic through brand awareness campaigns">>,
            "traffic_sources", 80)

LowBrandRecognition(direct) ==
    Insight("optimization", "Low Brand Recognition",
            "Only {direct}% direct traffic suggests limited brand awareness.",
            direct, "medium",
            <<"Invest in brand awareness campaigns",
              "Improve brand recall through consistent messaging",
              "Encourage repeat visits through email newsletters",
              "Build a community around your brand">>,
            "traffic_sources", 70)

SocialMediaOpportunity(social) ==
    Insight("recommendation", "Social Media Growth Opportunity",
            "Social traffic is only {social}%, indicating untapped potential.",
            social, "low",
            <<"Develop a comprehensive social media strategy",
              "Create shareable content optimized for each platform",
              "Engage actively with your audience on social platforms",
              "Consider social media advertising to expand reach">>,
            "traffic_sources", 60)

-----------------------------------------------------------------------------
(* AnalyticsIntelligence: the three evaluators *)

\* Faulty variant: the low-volume comparison is inclusive (sessions <= 500).
analyze_traffic_metrics_inclusive(data) ==
    LET sessions == Get(data, "sessions", 0)
        pages_per_session == Get(data, "pages_per_session", 0)
        volume == IF sessions <= LowSessions
                  THEN <<LowTrafficVolume(sessions)>>
                  ELSE IF sessions > HighSessions
                       THEN <<StrongTrafficPerformance(sessions)>>
                       ELSE <<>>
        pages == IF pages_per_session < MinPagesPerSession
                 THEN <<LowPageEngagement(pages_per_session)>>
                 ELSE <<>>
    IN  volume \o pages

\* Faulty variant: an absent pages_per_session is read as the threshold and
\* not as 0.
analyze_traffic_metrics_absent_at_threshold(data) ==
    LET sessions == Get(data, "sessions", 0)
        pages_per_session == Get(data, "pages_per_session", MinPagesPerSession)
        volume == IF sessions < LowSessions
                  THEN <<LowTrafficVolume(sessions)>>
                  ELSE IF sessions > HighSessions
                       THEN <<StrongTrafficPerformance(sessions)>>
                       ELSE <<>>
        pages == IF pages_per_session < MinPagesPerSession
                 THEN <<LowPageEngagement(pages_per_session)>>
                 ELSE <<>>
    IN  volume \o pages

analyze_traffic_metrics(data) ==
    LET sessions == Get(data, "sessions", 0)
        pages_per_session == Get(data, "pages_per_session", 0)
        volume == IF sessions < LowSessions
                  THEN <<LowTrafficVolume(sessions)>>
                  ELSE IF sessions > HighSessions
                       THEN <<StrongTrafficPerformance(sessions)>>
                       ELSE <<>>
        pages == IF pages_per_session < MinPagesPerSession
                 THEN <<LowPageEngagement(pages_per_session)>>
                 ELSE <<>>
    IN  volume \o pages

\* Faulty variant: the two bounce-rate rules are independent ifs and the
\* good-engagement rule reads the threshold of the high rule, so a rate
\* between 40 and 70 counts as good.
analyze_engagement_metrics_independent(data) ==
    LET bounce_rate == Get(data, "bounce_rate", 0)
        avg_duration == Get(data, "average_session_duration", 0)
        high == IF bounce_rate > HighBounceRate
                THEN <<HighBounceRateInsight(bounce_rate)>>
                ELSE <<>>
        good == IF bounce_rate < HighBounceRate
                THEN <<GoodUserEngagement(bounce_rate)>>
                ELSE <<>>
        duration == IF avg_duration < MinSessionDuration
                    THEN <<ShortSessionDuration(avg_duration)>>
                    ELSE <<>>
    IN  high \o good \o duration

\* Faulty variant: the insights are ordered by severity, so the medium
\* duration insight comes before a low bounce insight.
analyze_engagement_metrics_by_severity(data) ==
    LET bounce_rate == Get(data, "bounce_rate", 0)
        avg_duration == Get(data, "average_session_duration", 0)
        high == IF bounce_rate > HighBounceRate
                THEN <<HighBounceRateInsight(bounce_rate)>>
                ELSE <<>>
        good == IF bounce_rate < GoodBounceRate
                THEN <<GoodUserEngagement(bounce_rate)>>
                ELSE <<>>
        duration == IF avg_duration < MinSessionDuration
                    THEN <<ShortSessionDuration(avg_duration)>>
                    ELSE <<>>
    IN  high \o duration \o good

analyze_engagement_metrics(data) ==
    LET bounce_rate == Get(data, "bounce_rate", 0)
        avg_duration == Get(data, "average_session_duration", 0)
        bounce == IF bounce_rate > HighBounceRate
                  THEN <<HighBounceRateInsight(bounce_rate)>>
                  ELSE IF bounce_rate < GoodBounceRate
                       THEN <<GoodUserEngagement(bounce_rate)>>
                       ELSE <<>>
        duration == IF avg_duration < MinSessionDuration
                    THEN <<ShortSessionDuration(avg_duration)>>
                    ELSE <<>>
    IN  bounce \o duration

\* Faulty variant: the three rules form an if / elif chain, so only the first
\* rule that matches emits.
analyze_traffic_sources_elif(data) ==
    LET channels == Get(data, "channels", EmptyDict)
        organic_search == Get(channels, "organic_search", 0)
        direct == Get(channels, "direct", 0)
        social == Get(channels, "social", 0)
    IN  IF organic_search > MaxOrganicSearch
        THEN <<HighOrganicDependency(organic_search)>>
        ELSE IF direct < MinDirect
             THEN <<LowBrandRecognition(direct)>>
             ELSE IF social < MinSocial
                  THEN <<SocialMediaOpportunity(social)>>
                  ELSE <<>>

\* Faulty variant: the social rule is tested only when the direct rule fired.
analyze_traffic_sources_nested(data) ==
    LET channels == Get(data, "channels", EmptyDict)
        organic_search == Get(channels, "organic_search", 0)
        direct == Get(channels, "direct", 0)
        social == Get(channels, "social", 0)
        organic == IF organic_search > MaxOrganicSearch
                   THEN <<HighOrganicDependency(organic_search)>>
                   ELSE <<>>
        brand == IF direct < MinDirect
                 THEN <<LowBrandRecognition(direct)>> \o
                      (IF social < MinSocial
                       THEN <<SocialMediaOpportunity(social)>>
                       ELSE <<>>)
                 ELSE <<>>
    IN  organic \o brand

analyze_traffic_sources(data) ==
    LET channels == Get(data, "channels", EmptyDict)
        organic_search == Get(channels, "organic_search", 0)
        direct == Get(channels, "direct", 0)
        social == Get(channels, "social", 0)
        organic == IF organic_search > MaxOrganicSearch
                   THEN <<HighOrganicDependency(organic_search)>>
                   ELSE <<>>
        brand == IF direct < MinDirect
                 THEN <<LowBrandRecognition(direct)>>
                 ELSE <<>>
        soc == IF social < MinSocial
               THEN <<SocialMediaOpportunity(social)>>
               ELSE <<>>
    IN  organic \o brand \o soc

-----------------------------------------------------------------------------
(* AnalyticsIntelligence.generate_summary_report *)

Lit(s) == [fmt |-> "literal", text |-> s, num |-> 0]

FallbackReport == <<Lit("No significant insights found in the current data.")>>

BySeverity(insights, sev) == SelectSeq(insights, LAMBDA i : i.severity = sev)

InsightLines(insight) ==
    << [fmt |-> "bullet", text |-> insight.title, num |-> 0],
       [fmt |-> "description", text |-> insight.description.tmpl,
        num |-> insight.description.val],
       Lit("") >>

Section(heading, insights) ==
    IF insights = <<>> THEN <<>>
    ELSE <<Lit(heading), Lit("")>>
         \o Flatten([k \in 1..Len(insights) |-> InsightLines(insights[k])])

\* Faulty variant: the [:5] slice is missing.
RecommendationLinesUntruncated(all_recommendations) ==
    IF all_recommendations = <<>> THEN <<>>
    ELSE <<Lit("TOP RECOMMENDATIONS:"), Lit("")>>
         \o [k \in 1..Len(all_recommendations) |->
                [fmt |-> "numbered", text |-> all_recommendations[k], num |-> k]]
         \o <<Lit("")>>

RecommendationLines(all_recommendations) ==
    IF all_recommendations = <<>> THEN <<>>
    ELSE LET top == Take(all_recommendations, TopRecommendations)
         IN  <<Lit("TOP RECOMMENDATIONS:"), Lit("")>>
             \o [k \in 1..Len(top) |-> [fmt |-> "numbered", text |-> top[k], num |-> k]]
             \o <<Lit("")>>

NextSteps ==
    << Lit("Next Steps:"),
       Lit("1. Address critical and high priority issues first"),
       Lit("2. Implement quick wins from medium priority optimizations"),
       Lit("3. Monitor the impact of changes over 2-4 weeks"),
       Lit("4. Run this analysis regularly to track improvements") >>

\* Faulty variant: the positive indicators are rendered before the
\* optimization opportunities.
RenderSectionsLowBeforeMedium(insights) ==
    LET critical == BySeverity(insights, "critical")
        high == BySeverity(insights, "high")
        medium == BySeverity(insights, "medium")
        low == BySeverity(insights, "low")
        actionable == high \o medium
        all_recommendations ==
            Flatten([k \in 1..Len(actionable) |-> actionable[k].recommendations])
    IN  << Lit("GOOGLE ANALYTICS INSIGHTS REPORT"),
           Lit("=================================================="),
           Lit("") >>
        \o Section("CRITICAL ISSUES:", critical)
        \o Section("HIGH PRIORITY ITEMS:", high)
        \o Section("POSITIVE INDICATORS:", low)
        \o Section("OPTIMIZATION OPPORTUNITIES:", medium)
        \o RecommendationLines(all_recommendations)
        \o NextSteps

RenderSections(insights) ==
    LET critical == BySeverity(insights, "critical")
        high == BySeverity(insights, "high")
        medium == BySeverity(insights, "medium")
        low == BySeverity(insights, "low")
        actionable == high \o medium
        all_recommendations ==
            Flatten([k \in 1..Len(actionable) |-> actionable[k].recommendations])
    IN  << Lit("GOOGLE ANALYTICS INSIGHTS REPORT"),
           Lit("=================================================="),
           Lit("") >>
        \o Section("CRITICAL ISSUES:", critical)
        \o Section("HIGH PRIORITY ITEMS:", high)
        \o Section("OPTIMIZATION OPPORTUNITIES:", medium)
        \o Section("POSITIVE INDICATORS:", low)
        \o RecommendationLines(all_recommendations)
        \o NextSteps

\* Faulty variant: the empty-list guard is missing.
generate_summary_report_unguarded(insights) == RenderSections(insights)

generate_summary_report(insights) ==
    IF insights = <<>> THEN FallbackReport ELSE RenderSections(insights)

-----------------------------------------------------------------------------
(* Inputs of the pure-function specifications *)

\* Half-width of the value window explored around each threshold.
Spread == 1

\* Longest insight list handed to generate_summary_report.
MaxInsights == 4

Around(threshold) == (threshold - Spread)..(threshold + Spread)

Opt(key, values) == {EmptyDict} \cup {key :> v : v \in values}

SessionsValues == {300} \cup Around(LowSessions) \cup Around(HighSessions)
PagesValues == Around(MinPagesPerSession)
BounceValues == {7500} \cup Around(GoodBounceRate) \cup Around(HighBounceRate)
DurationValues == {50} \cup Around(MinSessionDuration)
OrganicValues == {8000} \cup Around(MaxOrganicSearch)
DirectValues == {1000} \cup Around(MinDirect)
SocialValues == {500} \cup Around(MinSocial)

TrafficParts ==
    {a @@ b : a \in Opt("sessions", SessionsValues),
              b \in Opt("pages_per_session", PagesValues)}

EngagementParts ==
    {a @@ b : a \in Opt("bounce_rate", BounceValues),
              b \in Opt("average_session_duration", DurationValues)}

SourcesParts ==
    {EmptyDict} \cup
    {"channels" :> (a @@ b @@ c) : a \in Opt("organic_search", OrganicValues),
                                   b \in Opt("direct", DirectValues),
                                   c \in Opt("social", SocialValues)}

\* The end-to-end scenario of the specification, family by family.
ScenarioTraffic == "sessions" :> 300
ScenarioEngagement == ("bounce_rate" :> 7500) @@ ("average_session_duration" :> 50)
ScenarioSources ==
    "channels" :> (("organic_search" :> 8000) @@ ("direct" :> 1000) @@ ("social" :> 500))
Scenario == ScenarioTraffic @@ ScenarioEngagement @@ ScenarioSources

\* One family ranges over all its values while the other two are the
\* scenario's or absent.
Snapshots ==
    {t @@ e @@ s : t \in TrafficParts,
                   e \in {EmptyDict, ScenarioEngagement},
                   s \in {EmptyDict, ScenarioSources}}
    \cup
    {t @@ e @@ s : t \in {EmptyDict, ScenarioTraffic},
                   e \in EngagementParts,
                   s \in {EmptyDict, ScenarioSources}}
    \cup
    {t @@ e @@ s : t \in {EmptyDict, ScenarioTraffic},
                   e \in {EmptyDict, ScenarioEngagement},
                   s \in SourcesParts}

\* Insights no evaluator emits but generate_summary_report accepts.
CriticalInsight ==
    Insight("alert", "Tracking Outage", "No data received for {hours} hours.", 24,
            "critical", <<"Restore the tracking snippet">>, "traffic_metrics", 100)
SingleRecommendationInsight ==
    Insight("trend", "Returning Visitors Declining",
            "Returning visitors fell by {pct}%.", 12,
            "medium", <<"Launch a re-engagement campaign">>, "traffic_metrics", 50)
UntaggedInsight ==
    Insight("trend", "Seasonal Pattern", "Traffic peaks every {days} days.", 7,
            "info", <<"Plan content around the peaks">>, "traffic_metrics", 50)

InsightPool ==
    { LowTrafficVolume(300), StrongTrafficPerformance(1200),
      HighBounceRateInsight(7500), LowPageEngagement(150),
      CriticalInsight, SingleRecommendationInsight, UntaggedInsight }

SeqsUpTo(S, n) == UNION {[1..k -> S] : k \in 0..n}

-----------------------------------------------------------------------------
(* State after construction: AnalyticsAgent.__init__ and MCPClient.__init__ *)

NoAnswer == [kind |-> "pending", texts |-> <<>>, nums |-> <<>>]

\* The days on which the program is started: 2024-01-30 and 2024-03-29.
StartDays == {19752, 19811}

\* No WebsiteAnalyzerAgent has fetched anything.
FetchIdle ==
    /\ use_mock_data = FALSE
    /\ fetches = <<>>

NoServed ==
    [tool |-> "", parameters |-> EmptyDict, raised |-> FALSE, dispatched |-> "none",
     body |-> EmptyDict]

\* main has not run and the server has handled nothing.
EnvIdle ==
    /\ served = NoServed
    /\ argv = <<>>
    /\ mode = "interactive"
    /\ input_line = <<>>
    /\ server_process = "none"
    /\ exit_status = "running"
    /\ printed = <<>>
    /\ closed = 0

TurnInit ==
    /\ called_on = 0
    /\ window = <<>>
    /\ in_flight = <<>>
    /\ question = <<>>
    /\ answer = NoAnswer

\* AnalyticsAgent() and its MCPClient as constructed.
AgentFields ==
    /\ available_tools = {}
    /\ last_analysis_data = EmptyDict
    /\ all_insights = <<>>
    /\ calls = <<>>
    /\ result = <<>>
    /\ clock \in StartDays
    /\ TurnInit
    /\ FetchIdle

AgentInit ==
    /\ AgentFields
    /\ pc = "constructed"
    /\ EnvIdle

PureIdle ==
    /\ snapshot = EmptyDict
    /\ traffic_insights = <<>>
    /\ engagement_insights = <<>>
    /\ sources_insights = <<>>
    /\ report = <<>>
    /\ phase = "unused"

-----------------------------------------------------------------------------
(* MCPClient *)

AllTools == {"get_traffic_metrics", "get_engagement_metrics", "get_top_pages",
             "get_traffic_sources", "get_demographic_data"}

AnalysisTools == {"get_traffic_metrics", "get_engagement_metrics", "get_traffic_sources"}

\* Tool tables a server may answer GET /tools with: the bundled server
\* advertises AllTools, another server may lack any of the analysis tools.
ToolTables == {(AllTools \ AnalysisTools) \cup t : t \in SUBSET AnalysisTools}

\* What the transport does with one POST /call_tool.
TransportFailures == {"connection", "timeout", "http_error", "decode_error"}

Ok(body) == [kind |-> "ok", body |-> body]
Failed(kind) == [kind |-> kind, body |-> EmptyDict]

\* A 200 answer of the server that carries its own error value.
ServerErrorBody == "error" :> "Tool execution failed"

NoException == [type |-> "none", text |-> ""]

\* call_tool posting the request a second time when the first one fails.
call_tool_retrying(tool_name, parameters, outcome) ==
    IF tool_name \notin available_tools
    THEN [tool |-> tool_name, parameters |-> parameters, raised |-> TRUE,
          exc |-> [type |-> "ValueError", text |-> tool_name], ret |-> EmptyDict,
          sent |-> 0, transport |-> "unused"]
    ELSE IF outcome.kind = "ok"
         THEN [tool |-> tool_name, parameters |-> parameters, raised |-> FALSE,
               exc |-> NoException, ret |-> outcome.body, sent |-> 1,
               transport |-> outcome.kind]
         ELSE [tool |-> tool_name, parameters |-> parameters, raised |-> FALSE,
               exc |-> NoException, ret |-> "error" :> outcome.kind, sent |-> 2,
               transport |-> outcome.kind]

\* call_tool: raises ValueError for a tool that was not discovered, otherwise
\* sends one request and returns the decoded body, or {"error": str(e)} for
\* any exception of the transport.  sent counts the requests it posts.
call_tool(tool_name, parameters, outcome) ==
    IF tool_name \notin available_tools
    THEN [tool |-> tool_name, parameters |-> parameters, raised |-> TRUE,
          exc |-> [type |-> "ValueError", text |-> tool_name], ret |-> EmptyDict,
          sent |-> 0, transport |-> "unused"]
    ELSE IF outcome.kind = "ok"
         THEN [tool |-> tool_name, parameters |-> parameters, raised |-> FALSE,
               exc |-> NoException, ret |-> outcome.body, sent |-> 1,
               transport |-> outcome.kind]
         ELSE [tool |-> tool_name, parameters |-> parameters, raised |-> FALSE,
               exc |-> NoException, ret |-> "error" :> outcome.kind, sent |-> 1,
               transport |-> outcome.kind]

\* The request call_tool posts: payload {tool_name, parameters}.
Request(tool_name, parameters) == [tool |-> tool_name, parameters |-> parameters]

-----------------------------------------------------------------------------
(* Dates *)

\* date.strftime("%Y-%m-%d") of the day `days` after 1970-01-01, as <<y, m, d>>.
strftime(days) ==
    LET z == days + 719468
        era == z \div 146097
        doe == z - era * 146097
        yoe == (doe - doe \div 1460 + doe \div 36524 - doe \div 146096) \div 365
        doy == doe - (365 * yoe + yoe \div 4 - yoe \div 100)
        mp == (5 * doy + 2) \div 153
        d == doy - (153 * mp + 2) \div 5 + 1
        m == IF mp < 10 THEN mp + 3 ELSE mp - 9
        y == yoe + era * 400 + (IF m <= 2 THEN 1 ELSE 0)
    IN  <<y, m, d>>

WindowDays == 30

\* Dates the server falls back to when a request carries none.
ServerDefaultStart == <<2024, 1, 1>>
ServerDefaultEnd == <<2024, 1, 31>>

\* GAMCPServer.handle_tool_call: the date range a request is answered for.
ServerWindow(parameters) ==
    << Get(parameters, "start_date", ServerDefaultStart),
       Get(parameters, "end_date", ServerDefaultEnd) >>

DateParameters(w) == ("start_date" :> w[1]) @@ ("end_date" :> w[2])

\* Most midnights the clock passes while the program runs.
MaxTicks == 1

-----------------------------------------------------------------------------
(* AnalyticsAgent.run_comprehensive_analysis *)

Put(d, key, value) == (key :> value) @@ d

AnalysisFailed(exc) == <<[fmt |-> "analysis_failed", text |-> exc.text, num |-> 0]>>

TrafficBodies ==
    { ScenarioTraffic,
      ("sessions" :> 1200) @@ ("pages_per_session" :> 250),
      ("sessions" :> 800) @@ ("pages_per_session" :> 250),
      ServerErrorBody }

EngagementBodies ==
    { ScenarioEngagement,
      ("bounce_rate" :> 3500) @@ ("average_session_duration" :> 120),
      ("bounce_rate" :> 5000) @@ ("average_session_duration" :> 200),
      ServerErrorBody }

SourcesBodies ==
    { ScenarioSources,
      "channels" :> (("organic_search" :> 5000) @@ ("direct" :> 2500) @@ ("social" :> 1500)),
      ServerErrorBody }

Outcomes(bodies) == {Ok(b) : b \in bodies} \cup {Failed(k) : k \in TransportFailures}

\* MCPClient.initialize, awaited by AnalyticsAgent.initialize: GET /tools.
Initialize ==
    /\ pc = "constructed"
    /\ \/ \E tools \in ToolTables :
             /\ available_tools' = tools
             /\ pc' = "ready"
       \/ /\ pc' = "init_failed"
          /\ UNCHANGED available_tools
    /\ UNCHANGED <<last_analysis_data, all_insights, calls, result, pureVars, fetchVars, envVars,
                   clock, called_on, window, in_flight, question, answer>>

\* A midnight passes while the agent waits for its next command.
Tick ==
    /\ pc = "ready"
    /\ \E d \in StartDays : d <= clock /\ clock < d + MaxTicks
    /\ clock' = clock + 1
    /\ UNCHANGED <<available_tools, last_analysis_data, pc, all_insights, calls, result,
                   pureVars, fetchVars, envVars, called_on, window, in_flight, question, answer>>

\* run_comprehensive_analysis() up to its first await, both dates omitted:
\* end_date is read from the clock, then start_date from a second reading of
\* the clock, which falls on the next day when midnight passes in between.
StartAnalysis ==
    /\ pc = "ready"
    /\ \E second \in {clock, clock + 1} :
          /\ second = clock \/ \E d \in StartDays : d <= clock /\ clock < d + MaxTicks
          /\ window' = <<strftime(second - WindowDays), strftime(clock)>>
          /\ clock' = second
    /\ called_on' = clock
    /\ all_insights' = <<>>
    /\ calls' = <<>>
    /\ result' = <<>>
    /\ pc' = "fetch_traffic"
    /\ UNCHANGED <<available_tools, last_analysis_data, pureVars, fetchVars, runVars, in_flight,
                   question, answer>>

\* call_tool posting the requests of all three families at once.
SendRequestFanOut(tool_name, parameters, at_pc, next_pc) ==
    /\ pc = at_pc
    /\ tool_name \in available_tools
    /\ in_flight' = in_flight \o << Request("get_traffic_metrics", parameters),
                                    Request("get_engagement_metrics", parameters),
                                    Request("get_traffic_sources", parameters) >>
    /\ pc' = next_pc
    /\ UNCHANGED <<available_tools, last_analysis_data, all_insights, calls, result,
                   pureVars, fetchVars, envVars, clock, called_on, window, question, answer>>

\* call_tool up to its await: the request of a discovered tool is posted.
SendRequest(tool_name, parameters, at_pc, next_pc) ==
    /\ pc = at_pc
    /\ tool_name \in available_tools
    /\ in_flight' = Append(in_flight, Request(tool_name, parameters))
    /\ pc' = next_pc
    /\ UNCHANGED <<available_tools, last_analysis_data, all_insights, calls, result,
                   pureVars, fetchVars, envVars, clock, called_on, window, question, answer>>

RequestTraffic ==
    SendRequest("get_traffic_metrics", DateParameters(window),
                "fetch_traffic", "await_traffic")

RequestEngagement ==
    SendRequest("get_engagement_metrics", DateParameters(window),
                "fetch_engagement", "await_engagement")

RequestSources ==
    SendRequest("get_traffic_sources", EmptyDict, "fetch_sources", "await_sources")

\* One family step of run_comprehensive_analysis: the call_tool (answered, or
\* raising before anything is sent), the "error" test, the evaluator, and the
\* except clause when call_tool raises.
FamilyStep(tool_name, parameters, family, insightsOf, outcome, next_pc) ==
    LET r == call_tool(tool_name, parameters, outcome)
    IN  /\ calls' = Append(calls, r)
        /\ in_flight' = SelectSeq(in_flight, LAMBDA q : q.tool # tool_name)
        /\ IF r.raised
           THEN /\ result' = AnalysisFailed(r.exc)
                /\ pc' = "returned"
                /\ UNCHANGED <<all_insights, last_analysis_data>>
           ELSE /\ IF "error" \notin DOMAIN r.ret
                   THEN /\ all_insights' = all_insights \o insightsOf
                        /\ last_analysis_data' = Put(last_analysis_data, family, r.ret)
                   ELSE UNCHANGED <<all_insights, last_analysis_data>>
                /\ IF next_pc = "returned"
                   THEN result' = generate_summary_report(all_insights')
                   ELSE UNCHANGED result
                /\ pc' = next_pc
        /\ UNCHANGED <<available_tools, pureVars, fetchVars, envVars, clock, called_on, window, question,
                       answer>>

\* The family's call_tool returns or raises: the request is answered, or the
\* tool is not discovered and nothing was sent.
Answered(tool_name, at_pc, await_pc) ==
    \/ pc = await_pc
    \/ pc = at_pc /\ tool_name \notin available_tools

FetchTraffic ==
    /\ Answered("get_traffic_metrics", "fetch_traffic", "await_traffic")
    /\ \E outcome \in Outcomes(TrafficBodies) :
          FamilyStep("get_traffic_metrics", DateParameters(window), "traffic",
                     analyze_traffic_metrics(outcome.body), outcome, "fetch_engagement")

FetchEngagement ==
    /\ Answered("get_engagement_metrics", "fetch_engagement", "await_engagement")
    /\ \E outcome \in Outcomes(EngagementBodies) :
          FamilyStep("get_engagement_metrics", DateParameters(window), "engagement",
                     analyze_engagement_metrics(outcome.body), outcome, "fetch_sources")

\* The last family step also renders the report and returns it.
FetchSources ==
    /\ Answered("get_traffic_sources", "fetch_sources", "await_sources")
    /\ \E outcome \in Outcomes(SourcesBodies) :
          FamilyStep("get_traffic_sources", EmptyDict, "sources",
                     analyze_traffic_sources(outcome.body), outcome, "returned")

\* The caller prints the returned text and the locals of the call are gone:
\* the interactive loop reads its next line, the analysis mode is done.
Return ==
    /\ pc = "returned"
    /\ pc' = IF mode = "interactive" THEN "ready" ELSE "analysis_done"
    /\ input_line' = <<>>
    /\ all_insights' = <<>>
    /\ calls' = <<>>
    /\ result' = <<>>
    /\ window' = <<>>
    /\ called_on' = 0
    /\ UNCHANGED <<available_tools, last_analysis_data, pureVars, fetchVars, runVars, clock, in_flight,
                   question, answer>>

-----------------------------------------------------------------------------
(* Strings: a str is the sequence of its characters *)

UpperCase == <<"A", "B", "C", "D", "E", "F", "G", "H", "I", "J", "K", "L", "M",
               "N", "O", "P", "Q", "R", "S", "T", "U", "V", "W", "X", "Y", "Z">>

LowerCase == <<"a", "b", "c", "d", "e", "f", "g", "h", "i", "j", "k", "l", "m",
               "n", "o", "p", "q", "r", "s", "t", "u", "v", "w", "x", "y", "z">>

\* str.lower() without the conversion.
lower_unchanged(s) == s

\* str.lower()
lower(s) ==
    [i \in 1..Len(s) |->
        IF \E k \in 1..Len(UpperCase) : UpperCase[k] = s[i]
        THEN LowerCase[CHOOSE k \in 1..Len(UpperCase) : UpperCase[k] = s[i]]
        ELSE s[i]]

\* word in s
Contains(s, word) ==
    \E start \in 0..(Len(s) - Len(word)) :
        \A i \in 1..Len(word) : s[start + i] = word[i]

\* any(word in s for word in words)
AnyWordIn(words, s) == \E word \in words : Contains(s, word)

TrafficWords ==
    { <<"t", "r", "a", "f", "f", "i", "c">>,
      <<"v", "i", "s", "i", "t", "o", "r", "s">>,
      <<"s", "e", "s", "s", "i", "o", "n", "s">>,
      <<"u", "s", "e", "r", "s">> }

EngagementWords ==
    { <<"e", "n", "g", "a", "g", "e", "m", "e", "n", "t">>,
      <<"b", "o", "u", "n", "c", "e">>,
      <<"d", "u", "r", "a", "t", "i", "o", "n">>,
      <<"t", "i", "m", "e">> }

SourcesWords ==
    { <<"s", "o", "u", "r", "c", "e">>,
      <<"r", "e", "f", "e", "r", "r", "a", "l">>,
      <<"s", "o", "c", "i", "a", "l">>,
      <<"s", "e", "a", "r", "c", "h">> }

TopPagesWords ==
    { <<"p", "a", "g", "e", "s">>,
      <<"c", "o", "n", "t", "e", "n", "t">>,
      <<"p", "o", "p", "u", "l", "a", "r">> }

DemographicsWords ==
    { <<"d", "e", "m", "o", "g", "r", "a", "p", "h", "i", "c", "s">>,
      <<"l", "o", "c", "a", "t", "i", "o", "n">>,
      <<"c", "o", "u", "n", "t", "r", "y">>,
      <<"d", "e", "v", "i", "c", "e">>,
      <<"m", "o", "b", "i", "l", "e">> }

\* Questions typed at the prompt of the interactive loop.
WhatsMyBounceRate ==
    <<"W", "h", "a", "t", "'", "s", " ", "m", "y", " ", "b", "o", "u", "n", "c", "e", " ", "r", "a", "t", "e", "?">>

HowIsMyWebsiteTraffic ==
    <<"H", "o", "w", " ", "i", "s", " ", "m", "y", " ", "w", "e", "b", "s", "i", "t", "e", " ", "t", "r", "a", "f", "f", "i", "c", "?">>

WhereDoMyVisitorsComeFrom ==
    <<"W", "h", "e", "r", "e", " ", "d", "o", " ", "m", "y", " ", "v", "i", "s", "i", "t", "o", "r", "s", " ", "c", "o", "m", "e", " ", "f", "r", "o", "m", "?">>

MobileUsers ==
    <<"m", "o", "b", "i", "l", "e", " ", "u", "s", "e", "r", "s">>

SocialSearchTime ==
    <<"S", "o", "c", "i", "a", "l", " ", "s", "e", "a", "r", "c", "h", " ", "t", "i", "m", "e">>

PopularContentByCountry ==
    <<"p", "o", "p", "u", "l", "a", "r", " ", "c", "o", "n", "t", "e", "n", "t", " ", "b", "y", " ", "c", "o", "u", "n", "t", "r", "y">>

UpperCaseTraffic ==
    <<"T", "R", "A", "F", "F", "I", "C">>

Sometimes ==
    <<"S", "o", "m", "e", "t", "i", "m", "e", "s">>

Device ==
    <<"d", "e", "v", "i", "c", "e">>

Referral ==
    <<"r", "e", "f", "e", "r", "r", "a", "l">>

Hello ==
    <<"h", "e", "l", "l", "o">>

TopPages ==
    <<"T", "o", "p", " ", "p", "a", "g", "e", "s">>

Questions ==
    { WhatsMyBounceRate,
      HowIsMyWebsiteTraffic,
      WhereDoMyVisitorsComeFrom,
      MobileUsers,
      SocialSearchTime,
      PopularContentByCountry,
      UpperCaseTraffic,
      Sometimes,
      Device,
      Referral,
      Hello,
      TopPages }

\* The interactive loop of start_agent (main.py:46-58): reading a line.
Whitespace == {" ", "\t"}

RECURSIVE lstrip(_)
lstrip(s) == IF s # <<>> /\ Head(s) \in Whitespace THEN lstrip(Tail(s)) ELSE s

RECURSIVE rstrip(_)
rstrip(s) ==
    IF s # <<>> /\ s[Len(s)] \in Whitespace THEN rstrip(SubSeq(s, 1, Len(s) - 1)) ELSE s

\* str.strip()
strip(s) == rstrip(lstrip(s))

QuitCommands ==
    { <<"q", "u", "i", "t">>, <<"e", "x", "i", "t">>, <<"q">> }

AnalyzeCommand == <<"a", "n", "a", "l", "y", "z", "e">>

\* Lines typed at the prompt: commands in several spellings, blank lines,
\* and the questions, one of them padded.
Lines ==
    Questions \cup
    { <<" ", "Q", "u", "i", "t", " ">>,
      <<"E", "X", "I", "T">>,
      <<"q">>,
      <<"A", "n", "a", "l", "y", "z", "e", " ">>,
      <<>>,
      <<" ", " ">>,
      <<" ", "h", "e", "l", "l", "o", " ", " ">> }

\* The branch of the loop body taken without question = input(...).strip().
dispatch_unstripped(input) ==
    LET question_ == input
    IN  IF lower(question_) \in QuitCommands THEN "break"
        ELSE IF lower(question_) = AnalyzeCommand THEN "run_comprehensive_analysis"
        ELSE IF question_ # <<>> THEN "answer_question"
        ELSE "continue"

\* The branch of the loop body taken for a line read by input().
dispatch(input) ==
    LET question_ == strip(input)
    IN  IF lower(question_) \in QuitCommands THEN "break"
        ELSE IF lower(question_) = AnalyzeCommand THEN "run_comprehensive_analysis"
        ELSE IF question_ # <<>> THEN "answer_question"
        ELSE "continue"

\* The lines after which the loop body takes each of its branches.
BreakLines == {input \in Lines : dispatch(input) = "break"}

AnalyzeLines == {input \in Lines : dispatch(input) = "run_comprehensive_analysis"}

QuestionLines == {input \in Lines : dispatch(input) = "answer_question"}

EmptyLines == {input \in Lines : dispatch(input) = "continue"}

-----------------------------------------------------------------------------
(* AnalyticsAgent.answer_question *)

ChannelOrder == <<"organic_search", "direct", "social", "referral", "paid_search", "email">>

\* key.replace('_', ' ')
Spaced(key) ==
    CASE key = "organic_search" -> "organic search"
      [] key = "paid_search" -> "paid search"
      [] OTHER -> key

\* channels.items(), in the order of the mapping.
Items(channels) == SelectSeq(ChannelOrder, LAMBDA k : k \in DOMAIN channels)

\* Position of the first greatest value: max() and a stable descending sort
\* both keep the earliest of equal items first.
FirstMax(keys, channels) ==
    CHOOSE i \in 1..Len(keys) :
        /\ \A j \in 1..Len(keys) : channels[keys[j]] <= channels[keys[i]]
        /\ \A j \in 1..(i - 1) : channels[keys[j]] < channels[keys[i]]

RECURSIVE SortedDescending(_, _)
\* sorted(keys, key=value, reverse=True)
SortedDescending(keys, channels) ==
    IF keys = <<>>
    THEN <<>>
    ELSE LET i == FirstMax(keys, channels)
         IN  <<keys[i]>> \o
             SortedDescending(SubSeq(keys, 1, i - 1) \o SubSeq(keys, i + 1, Len(keys)),
                              channels)

\* s[from:to]
Slice(s, from, to) == SubSeq(s, from + 1, IF to < Len(s) THEN to ELSE Len(s))

Answer(kind, texts, nums) == [kind |-> kind, texts |-> texts, nums |-> nums]

HelpSentence == Answer("help", <<>>, <<>>)

\* The function ends without a return statement.
ReturnsNone == Answer("none", <<>>, <<>>)

ErrorRetrievingData(text) == Answer("error", <<text>>, <<>>)

QAGoodBounceRate == 5000

PagesShown == 3

TrafficAnswer(data) ==
    Answer("traffic", <<>>,
           << Get(data, "sessions", 0), Get(data, "users", 0), Get(data, "pageviews", 0),
              Get(data, "pages_per_session", 0) >>)

EngagementAnswer(data) ==
    LET bounce_rate == Get(data, "bounce_rate", 0)
        duration == Get(data, "average_session_duration", 0)
    IN  Answer("engagement",
               << IF bounce_rate < QAGoodBounceRate
                  THEN "This indicates good engagement."
                  ELSE "Consider improving page content and loading speed to reduce bounce rate." >>,
               << bounce_rate, duration \div 60, duration % 60 >>)

SourcesAnswer(data) ==
    LET channels == Get(data, "channels", EmptyDict)
        keys == Items(channels)
    IN  IF keys = <<>>
        THEN ErrorRetrievingData("max() arg is an empty sequence")
        ELSE LET top_channel == keys[FirstMax(keys, channels)]
                 others == Slice(SortedDescending(keys, channels), 1, 4)
             IN  Answer("sources",
                        <<Spaced(top_channel)>> \o
                            [i \in 1..Len(others) |-> Spaced(others[i])],
                        <<channels[top_channel]>> \o
                            [i \in 1..Len(others) |-> channels[others[i]]])

TopPagesAnswer(data) ==
    LET top_pages == Slice(Get(data, "top_pages", <<>>), 0, PagesShown)
    IN  IF \E i \in 1..Len(top_pages) : "page" \notin DOMAIN top_pages[i]
        THEN ErrorRetrievingData("page")
        ELSE IF \E i \in 1..Len(top_pages) : "pageviews" \notin DOMAIN top_pages[i]
        THEN ErrorRetrievingData("pageviews")
        ELSE Answer("top_pages",
                    [i \in 1..Len(top_pages) |-> top_pages[i]["page"]],
                    [i \in 1..Len(top_pages) |-> top_pages[i]["pageviews"]])

DemographicsAnswer(data) ==
    LET countries == Slice(Get(data, "countries", <<>>), 0, PagesShown)
        devices == Get(data, "devices", EmptyDict)
    IN  IF \E i \in 1..Len(countries) : "country" \notin DOMAIN countries[i]
        THEN ErrorRetrievingData("country")
        ELSE IF \E i \in 1..Len(countries) : "percentage" \notin DOMAIN countries[i]
        THEN ErrorRetrievingData("percentage")
        ELSE Answer("demographics",
                    [i \in 1..Len(countries) |-> countries[i]["country"]],
                    [i \in 1..Len(countries) |-> countries[i]["percentage"]] \o
                        << Get(devices, "desktop", 0), Get(devices, "mobile", 0),
                           Get(devices, "tablet", 0) >>)

\* The if/elif chain with the demographics test moved to the front.
intent_demographics_first(question_lower) ==
    IF AnyWordIn(DemographicsWords, question_lower) THEN "demographics"
    ELSE IF AnyWordIn(TrafficWords, question_lower) THEN "traffic"
    ELSE IF AnyWordIn(EngagementWords, question_lower) THEN "engagement"
    ELSE IF AnyWordIn(SourcesWords, question_lower) THEN "sources"
    ELSE IF AnyWordIn(TopPagesWords, question_lower) THEN "top_pages"
    ELSE "help"

\* The branch of the if/elif chain that a lower-cased question takes.
intent(question_lower) ==
    IF AnyWordIn(TrafficWords, question_lower) THEN "traffic"
    ELSE IF AnyWordIn(EngagementWords, question_lower) THEN "engagement"
    ELSE IF AnyWordIn(SourcesWords, question_lower) THEN "sources"
    ELSE IF AnyWordIn(TopPagesWords, question_lower) THEN "top_pages"
    ELSE IF AnyWordIn(DemographicsWords, question_lower) THEN "demographics"
    ELSE "help"

\* The tool each branch calls, and the sentence it builds from the response.
ToolOf(branch) ==
    CASE branch = "traffic" -> "get_traffic_metrics"
      [] branch = "engagement" -> "get_engagement_metrics"
      [] branch = "sources" -> "get_traffic_sources"
      [] branch = "top_pages" -> "get_top_pages"
      [] branch = "demographics" -> "get_demographic_data"

Sentence(branch, data) ==
    CASE branch = "traffic" -> TrafficAnswer(data)
      [] branch = "engagement" -> EngagementAnswer(data)
      [] branch = "sources" -> SourcesAnswer(data)
      [] branch = "top_pages" -> TopPagesAnswer(data)
      [] branch = "demographics" -> DemographicsAnswer(data)

\* answer_question that answers from self.last_analysis_data when the family
\* was analysed before.
answer_question_from_last_analysis(self, q, outcome) ==
    LET branch == intent(lower(q))
    IN  IF branch = "help"
        THEN [answer |-> HelpSentence, calls |-> <<>>, self |-> self]
        ELSE IF branch \in DOMAIN self.last_analysis_data
        THEN [answer |-> Sentence(branch, self.last_analysis_data[branch]),
              calls |-> <<>>, self |-> self]
        ELSE LET r == call_tool(ToolOf(branch), EmptyDict, outcome)
             IN  [answer |-> IF r.raised THEN ErrorRetrievingData(r.exc.text)
                             ELSE IF "error" \in DOMAIN r.ret THEN ReturnsNone
                             ELSE Sentence(branch, r.ret),
                  calls |-> <<r>>, self |-> self]

\* answer_question(self, question): the answer, the call_tool it made, and self
\* as the call leaves it.  No parameters are passed to call_tool.
answer_question(self, q, outcome) ==
    LET branch == intent(lower(q))
    IN  IF branch = "help"
        THEN [answer |-> HelpSentence, calls |-> <<>>, self |-> self]
        ELSE LET r == call_tool(ToolOf(branch), EmptyDict, outcome)
             IN  [answer |-> IF r.raised THEN ErrorRetrievingData(r.exc.text)
                             ELSE IF "error" \in DOMAIN r.ret THEN ReturnsNone
                             ELSE Sentence(branch, r.ret),
                  calls |-> <<r>>, self |-> self]

QAEngagement == ("bounce_rate" :> 4500) @@ ("average_session_duration" :> 150)

TopPagesBodies ==
    { "top_pages" :> << ("page" :> "/") @@ ("pageviews" :> 450),
                        ("page" :> "/products") @@ ("pageviews" :> 200),
                        ("page" :> "/about") @@ ("pageviews" :> 150),
                        ("page" :> "/blog") @@ ("pageviews" :> 100) >>,
      "top_pages" :> << ("page" :> "/") >>,
      EmptyDict,
      ServerErrorBody }

DemographicBodies ==
    { ("countries" :> << ("country" :> "United States") @@ ("percentage" :> 4000),
                         ("country" :> "United Kingdom") @@ ("percentage" :> 1500) >>)
        @@ ("devices" :> (("desktop" :> 5500) @@ ("mobile" :> 3500))),
      EmptyDict,
      ServerErrorBody }

\* What the server can answer to the tool of a branch.
BodiesOf(branch) ==
    CASE branch = "traffic" -> TrafficBodies
      [] branch = "engagement" -> EngagementBodies \cup {QAEngagement}
      [] branch = "sources" -> SourcesBodies \cup {EmptyDict, "channels" :> ("direct" :> 10000)}
      [] branch = "top_pages" -> TopPagesBodies
      [] branch = "demographics" -> DemographicBodies
      [] OTHER -> {EmptyDict}

\* One question turn of the interactive loop up to the print:
\* answer = await agent.answer_question(question).
AnswerQuestion ==
    /\ pc = "ready"
    /\ mode = "interactive"
    /\ \E input \in QuestionLines :
       \E q \in {strip(input)} :
       \E outcome \in Outcomes(BodiesOf(intent(lower(q)))) :
          LET r == answer_question([last_analysis_data |-> last_analysis_data], q, outcome)
          IN  /\ input_line' = <<input>>
              /\ question' = q
              /\ answer' = r.answer
              /\ calls' = r.calls
              /\ last_analysis_data' = r.self.last_analysis_data
    /\ called_on' = clock
    /\ pc' = "answered"
    /\ UNCHANGED <<available_tools, all_insights, result, pureVars, fetchVars, runVars, clock,
                   window, in_flight>>

\* print(answer): the turn is over and the loop reads the next line.
PrintAnswer ==
    /\ pc = "answered"
    /\ pc' = "ready"
    /\ question' = <<>>
    /\ answer' = NoAnswer
    /\ calls' = <<>>
    /\ called_on' = 0
    /\ input_line' = <<>>
    /\ UNCHANGED <<available_tools, last_analysis_data, all_insights, result, pureVars, fetchVars,
                   runVars, clock, window, in_flight>>

-----------------------------------------------------------------------------
(* main and start_agent (main.py) *)

ModeServer == <<"s", "e", "r", "v", "e", "r">>

ModeAgent == <<"a", "g", "e", "n", "t">>

ModeBoth == <<"b", "o", "t", "h">>

ModeInteractive == <<"i", "n", "t", "e", "r", "a", "c", "t", "i", "v", "e">>

\* sys.argv[1:] of the runs considered.
Argvs ==
    { <<>>,
      << ModeServer >>,
      << <<"A", "g", "e", "n", "t">> >>,
      << <<"B", "O", "T", "H">> >>,
      << ModeInteractive >>,
      << <<"b", "o", "g", "u", "s">> >> }

\* The pcs at which the agent is suspended in an await.
AwaitPcs == {"constructed", "await_traffic", "await_engagement", "await_sources"}

\* main without an argument: usage text, sys.exit(1).
Usage ==
    /\ pc = "main"
    /\ Len(argv) < 1
    /\ printed' = <<"Usage: python main.py [server|agent|both|interactive]">>
    /\ exit_status' = "exit_1"
    /\ pc' = "exited"
    /\ UNCHANGED <<available_tools, last_analysis_data, all_insights, calls, result, pureVars,
                   fetchVars, served, argv, mode, input_line, server_process, closed, clock,
                   called_on, window, in_flight, question, answer>>

\* main with an argument that is none of the four modes: sys.exit(1).
UnknownMode ==
    /\ pc = "main"
    /\ Len(argv) >= 1
    /\ lower(argv[1]) \notin {ModeServer, ModeAgent, ModeInteractive, ModeBoth}
    /\ printed' = <<"Unknown mode", "Use: server, agent, both, or interactive">>
    /\ exit_status' = "exit_1"
    /\ pc' = "exited"
    /\ UNCHANGED <<available_tools, last_analysis_data, all_insights, calls, result, pureVars,
                   fetchVars, served, argv, mode, input_line, server_process, closed, clock,
                   called_on, window, in_flight, question, answer>>

\* Mode server: the subprocess is spawned and main waits for it.
ServerMode ==
    /\ pc = "main"
    /\ Len(argv) >= 1
    /\ lower(argv[1]) = ModeServer
    /\ server_process' = "running"
    /\ pc' = "serving"
    /\ UNCHANGED <<available_tools, last_analysis_data, all_insights, calls, result, pureVars,
                   fetchVars, served, argv, mode, input_line, exit_status, printed, closed,
                   clock, called_on, window, in_flight, question, answer>>

\* server_process.wait() returns, or Ctrl+C terminates the subprocess.
ServerStops ==
    /\ pc = "serving"
    /\ server_process' \in {"exited", "terminated"}
    /\ exit_status' = "returned"
    /\ pc' = "exited"
    /\ UNCHANGED <<available_tools, last_analysis_data, all_insights, calls, result, pureVars,
                   fetchVars, served, argv, mode, input_line, printed, closed, clock,
                   called_on, window, in_flight, question, answer>>

\* Modes agent and interactive: asyncio.run(start_agent(...)) up to the
\* await of initialize.
AgentMode ==
    /\ pc = "main"
    /\ Len(argv) >= 1
    /\ \/ lower(argv[1]) = ModeAgent /\ mode' = "analyze"
       \/ lower(argv[1]) = ModeInteractive /\ mode' = "interactive"
    /\ pc' = "constructed"
    /\ UNCHANGED <<available_tools, last_analysis_data, all_insights, calls, result, pureVars,
                   fetchVars, served, argv, input_line, server_process, exit_status, printed,
                   closed, clock, called_on, window, in_flight, question, answer>>

\* Mode both: the subprocess is spawned and main sleeps.
BothMode ==
    /\ pc = "main"
    /\ Len(argv) >= 1
    /\ lower(argv[1]) = ModeBoth
    /\ server_process' = "running"
    /\ pc' = "sleeping"
    /\ UNCHANGED <<available_tools, last_analysis_data, all_insights, calls, result, pureVars,
                   fetchVars, served, argv, mode, input_line, exit_status, printed, closed,
                   clock, called_on, window, in_flight, question, answer>>

\* Mode both after the sleep: asyncio.run(start_agent("analyze")), or Ctrl+C
\* during the sleep, which leaves through the except and the finally.
AfterSleep ==
    /\ pc = "sleeping"
    /\ \/ /\ mode' = "analyze"
          /\ pc' = "constructed"
          /\ UNCHANGED <<server_process, exit_status>>
       \/ /\ server_process' = "terminated"
          /\ exit_status' = "returned"
          /\ pc' = "exited"
          /\ UNCHANGED mode
    /\ UNCHANGED <<available_tools, last_analysis_data, all_insights, calls, result, pureVars,
                   fetchVars, served, argv, input_line, printed, closed, clock, called_on,
                   window, in_flight, question, answer>>

\* The else branch of start_agent: one analysis.
AnalysisMode ==
    /\ pc = "ready"
    /\ mode = "analyze"
    /\ StartAnalysis
    /\ UNCHANGED input_line

\* The loop reads a line that says analyze.
AnalyzeLine ==
    /\ pc = "ready"
    /\ mode = "interactive"
    /\ \E input \in AnalyzeLines : input_line' = <<input>>
    /\ StartAnalysis

\* The loop reads a quit command, or Ctrl+C arrives at the prompt: break.
Break ==
    /\ pc = "ready"
    /\ mode = "interactive"
    /\ \/ \E input \in BreakLines : input_line' = <<input>>
       \/ input_line' = <<>>
    /\ pc' = "loop_ended"
    /\ UNCHANGED <<available_tools, last_analysis_data, all_insights, calls, result, pureVars,
                   fetchVars, runVars, clock, called_on, window, in_flight, question, answer>>

\* The loop reads a line that is empty once stripped: nothing runs and the
\* prompt is shown again.
EmptyLine ==
    /\ pc = "ready"
    /\ mode = "interactive"
    /\ \E input \in EmptyLines : input_line' = <<input>>
    /\ pc' = "ready"
    /\ UNCHANGED <<available_tools, last_analysis_data, all_insights, calls, result, pureVars,
                   fetchVars, runVars, clock, called_on, window, in_flight, question, answer>>

\* input() raises EOFError: the loop does not catch it.
EndOfInput ==
    /\ pc = "ready"
    /\ mode = "interactive"
    /\ input_line' = <<>>
    /\ pc' = "input_failed"
    /\ UNCHANGED <<available_tools, last_analysis_data, all_insights, calls, result, pureVars,
                   fetchVars, runVars, clock, called_on, window, in_flight, question, answer>>

\* Ctrl+C while the agent is suspended in an await: the task is cancelled,
\* no except clause of the agent catches it, and the locals are gone.
Interrupt ==
    /\ pc \in AwaitPcs
    /\ pc' = "interrupted"
    /\ in_flight' = <<>>
    /\ all_insights' = <<>>
    /\ calls' = <<>>
    /\ result' = <<>>
    /\ window' = <<>>
    /\ called_on' = 0
    /\ input_line' = <<>>
    /\ UNCHANGED <<available_tools, last_analysis_data, pureVars, fetchVars, runVars, clock,
                   question, answer>>

\* close() placed after the if/else instead of in the finally clause.
CloseOutsideFinally ==
    /\ pc \in {"init_failed", "input_failed", "interrupted", "loop_ended", "analysis_done"}
    /\ closed' = IF pc \in {"loop_ended", "analysis_done"} THEN closed + 1 ELSE closed
    /\ pc' = CASE pc \in {"init_failed", "input_failed"} -> "agent_raised"
               [] pc = "interrupted" -> "agent_interrupted"
               [] OTHER -> "agent_returned"
    /\ UNCHANGED <<available_tools, last_analysis_data, all_insights, calls, result, pureVars,
                   fetchVars, served, argv, mode, input_line, server_process, exit_status,
                   printed, clock, called_on, window, in_flight, question, answer>>

\* finally: await agent.close(), on the way out of start_agent.
Close ==
    /\ pc \in {"init_failed", "input_failed", "interrupted", "loop_ended", "analysis_done"}
    /\ closed' = closed + 1
    /\ pc' = CASE pc \in {"init_failed", "input_failed"} -> "agent_raised"
               [] pc = "interrupted" -> "agent_interrupted"
               [] OTHER -> "agent_returned"
    /\ UNCHANGED <<available_tools, last_analysis_data, all_insights, calls, result, pureVars,
                   fetchVars, served, argv, mode, input_line, server_process, exit_status,
                   printed, clock, called_on, window, in_flight, question, answer>>

\* main after asyncio.run, with terminate() after the call instead of in
\* the finally clause.
AgentStopsWithoutFinally ==
    /\ pc \in {"agent_returned", "agent_raised", "agent_interrupted"}
    /\ server_process' = IF lower(argv[1]) = ModeBoth /\ pc = "agent_returned"
                         THEN "terminated"
                         ELSE server_process
    /\ exit_status' = CASE pc = "agent_returned" -> "returned"
                        [] pc = "agent_raised" -> "exception"
                        [] OTHER -> IF lower(argv[1]) = ModeBoth THEN "returned"
                                    ELSE "interrupt"
    /\ pc' = "exited"
    /\ UNCHANGED <<available_tools, last_analysis_data, all_insights, calls, result, pureVars,
                   fetchVars, served, argv, mode, input_line, printed, closed, clock,
                   called_on, window, in_flight, question, answer>>

\* main after asyncio.run(start_agent(...)) returned or raised: mode both
\* catches KeyboardInterrupt and terminates the subprocess in its finally.
AgentStops ==
    /\ pc \in {"agent_returned", "agent_raised", "agent_interrupted"}
    /\ server_process' = IF lower(argv[1]) = ModeBoth /\ server_process # "none"
                         THEN "terminated"
                         ELSE server_process
    /\ exit_status' = CASE pc = "agent_returned" -> "returned"
                        [] pc = "agent_raised" -> "exception"
                        [] OTHER -> IF lower(argv[1]) = ModeBoth THEN "returned"
                                    ELSE "interrupt"
    /\ pc' = "exited"
    /\ UNCHANGED <<available_tools, last_analysis_data, all_insights, calls, result, pureVars,
                   fetchVars, served, argv, mode, input_line, printed, closed, clock,
                   called_on, window, in_flight, question, answer>>

\* main has not run: the process has its arguments and nothing else.
MainIdle ==
    /\ served = NoServed
    /\ argv \in Argvs
    /\ mode = "none"
    /\ input_line = <<>>
    /\ server_process = "none"
    /\ exit_status = "running"
    /\ printed = <<>>
    /\ closed = 0

-----------------------------------------------------------------------------
(* WebsiteAnalyzerAgent.fetch_data (website_analyzer/agent.py, demo_agent.py) *)

\* Keys of tools_map; every key maps to the endpoint /analytics.
ToolsMap ==
    { <<"w", "e", "b", "s", "i", "t", "e", " ", "t", "r", "a", "f", "f", "i", "c">>,
      <<"t", "r", "a", "f", "f", "i", "c", " ", "d", "a", "t", "a">>,
      <<"a", "n", "a", "l", "y", "t", "i", "c", "s">>,
      <<"w", "e", "b", "s", "i", "t", "e", " ", "a", "n", "a", "l", "y", "t", "i", "c", "s">>,
      <<"p", "e", "r", "f", "o", "r", "m", "a", "n", "c", "e", " ", "m", "e", "t", "r", "i", "c", "s">> }

DemoToolsMap ==
    { <<"w", "e", "b", "s", "i", "t", "e", " ", "t", "r", "a", "f", "f", "i", "c">>,
      <<"t", "r", "a", "f", "f", "i", "c", " ", "a", "n", "a", "l", "y", "s", "i", "s">>,
      <<"w", "e", "b", "s", "i", "t", "e", " ", "p", "e", "r", "f", "o", "r", "m", "a", "n", "c", "e">>,
      <<"u", "s", "e", "r", " ", "e", "n", "g", "a", "g", "e", "m", "e", "n", "t">>,
      <<"s", "i", "t", "e", " ", "a", "n", "a", "l", "y", "t", "i", "c", "s">>,
      <<"t", "r", "a", "f", "f", "i", "c", " ", "m", "e", "t", "r", "i", "c", "s">>,
      <<"w", "e", "b", "s", "i", "t", "e", " ", "d", "a", "t", "a">>,
      <<"p", "e", "r", "f", "o", "r", "m", "a", "n", "c", "e", " ", "m", "e", "t", "r", "i", "c", "s">> }

WebsiteTrafficCapitalised ==
    <<"W", "e", "b", "s", "i", "t", "e", " ", "T", "r", "a", "f", "f", "i", "c">>

AnalyticsRequest ==
    <<"a", "n", "a", "l", "y", "t", "i", "c", "s">>

TrafficMetricsRequest ==
    <<"t", "r", "a", "f", "f", "i", "c", " ", "m", "e", "t", "r", "i", "c", "s">>

TopPagesRequest ==
    <<"t", "o", "p", " ", "p", "a", "g", "e", "s">>

RequestTypes ==
    {WebsiteTrafficCapitalised, AnalyticsRequest, TrafficMetricsRequest, TopPagesRequest}

\* GET /analytics of the bundled server, and of a server with other figures.
fake_data ==
    ("sessions" :> 1000) @@ ("bounce_rate" :> 5000) @@ ("average_session_duration" :> 200)

AnalyticsBodies ==
    { fake_data,
      ("sessions" :> 400) @@ ("bounce_rate" :> 6500) @@ ("average_session_duration" :> 90) }

mock_data ==
    ("sessions" :> 1000) @@ ("bounce_rate" :> 5000) @@ ("average_session_duration" :> 200)

\* What a fetch_data call did: the value it returned (None, or a dict), the
\* requests it sent, what the transport did with the request, and the agent's
\* use_mock_data after the call.
Fetched(variant, request_type, none, data, sent, transport, mock) ==
    [variant |-> variant, request_type |-> request_type, none |-> none, data |-> data,
     sent |-> sent, transport |-> transport, use_mock_data |-> mock]

\* fetch_data of website_analyzer/agent.py.
fetch_data(request_type, outcome) ==
    IF lower(request_type) \notin ToolsMap
    THEN Fetched("agent", request_type, TRUE, EmptyDict, 0, "unused", FALSE)
    ELSE IF outcome.kind = "ok"
    THEN Fetched("agent", request_type, FALSE, outcome.body, 1, outcome.kind, FALSE)
    ELSE Fetched("agent", request_type, TRUE, EmptyDict, 1, outcome.kind, FALSE)

\* Faulty variant: tools_map is consulted before the mock data mode, and a
\* fetch that succeeds leaves the mock data mode.
demo_fetch_data_map_first(self, request_type, outcome) ==
    IF lower(request_type) \notin DemoToolsMap
    THEN Fetched("demo", request_type, TRUE, EmptyDict, 0, "unused", self.use_mock_data)
    ELSE IF self.use_mock_data
    THEN Fetched("demo", request_type, FALSE, mock_data, 0, "unused", TRUE)
    ELSE IF outcome.kind = "ok"
    THEN Fetched("demo", request_type, FALSE, outcome.body, 1, outcome.kind, FALSE)
    ELSE IF outcome.kind \in {"connection", "timeout"}
    THEN Fetched("demo", request_type, FALSE, mock_data, 1, outcome.kind, TRUE)
    ELSE Fetched("demo", request_type, TRUE, EmptyDict, 1, outcome.kind, FALSE)

\* fetch_data of website_analyzer/demo_agent.py.
demo_fetch_data(self, request_type, outcome) ==
    IF self.use_mock_data
    THEN Fetched("demo", request_type, FALSE, mock_data, 0, "unused", TRUE)
    ELSE IF lower(request_type) \notin DemoToolsMap
    THEN Fetched("demo", request_type, TRUE, EmptyDict, 0, "unused", FALSE)
    ELSE IF outcome.kind = "ok"
    THEN Fetched("demo", request_type, FALSE, outcome.body, 1, outcome.kind, FALSE)
    ELSE IF outcome.kind \in {"connection", "timeout"}
    THEN Fetched("demo", request_type, FALSE, mock_data, 1, outcome.kind, TRUE)
    ELSE Fetched("demo", request_type, TRUE, EmptyDict, 1, outcome.kind, FALSE)

\* Most fetch_data calls of one run of the analyzer programs.
MaxFetches == 2

\* The analyzer programs construct their agent; the demo is started with the
\* server or in mock data mode.
InitAnalyzer ==
    /\ available_tools = {}
    /\ last_analysis_data = EmptyDict
    /\ pc = "analyzer"
    /\ all_insights = <<>>
    /\ calls = <<>>
    /\ result = <<>>
    /\ clock \in StartDays
    /\ TurnInit
    /\ PureIdle
    /\ use_mock_data \in BOOLEAN
    /\ fetches = <<>>
    /\ EnvIdle

FetchData ==
    /\ pc = "analyzer"
    /\ Len(fetches) < MaxFetches
    /\ \E request_type \in RequestTypes :
       \E outcome \in Outcomes(AnalyticsBodies) :
          fetches' = Append(fetches, fetch_data(request_type, outcome))
    /\ UNCHANGED <<agentVars, pureVars, envVars, use_mock_data>>

DemoFetchData ==
    /\ pc = "analyzer"
    /\ Len(fetches) < MaxFetches
    /\ \E request_type \in RequestTypes :
       \E outcome \in Outcomes(AnalyticsBodies) :
          LET r == demo_fetch_data([use_mock_data |-> use_mock_data], request_type, outcome)
          IN  /\ fetches' = Append(fetches, r)
              /\ use_mock_data' = r.use_mock_data
    /\ UNCHANGED <<agentVars, pureVars, envVars>>

-----------------------------------------------------------------------------
(* GADataStore and GAMCPServer (ga_mcp_server.py) *)

\* The values random.randint / round(random.uniform, 2) can return: the two
\* ends of the range and the values of the range next to the thresholds the
\* evaluators compare with.
Drawn(low, high, near) == {low, high} \cup {v \in near : low <= v /\ v <= high}

\* Faulty variant: bounce rates up to 75.
BounceRateDrawnUpTo75 ==
    Drawn(3500, 7500, Around(GoodBounceRate) \cup Around(HighBounceRate))

SessionsDrawn == Drawn(800, 1200, Around(LowSessions) \cup Around(HighSessions))
PagesPerSessionDrawn == Drawn(210, 350, Around(MinPagesPerSession))
BounceRateDrawn == Drawn(3500, 6500, Around(GoodBounceRate) \cup Around(HighBounceRate))
DurationDrawn == Drawn(120, 300, Around(MinSessionDuration))
OrganicDrawn == Drawn(4000, 6000, Around(MaxOrganicSearch))
DirectDrawn == Drawn(2000, 3500, Around(MinDirect))
SocialDrawn == Drawn(1000, 2000, Around(MinSocial))

DateRange(start_date, end_date) == ("start_date" :> start_date) @@ ("end_date" :> end_date)

get_traffic_metrics(start_date, end_date, draw) ==
    ("sessions" :> draw.sessions) @@ ("pageviews" :> 2000) @@ ("users" :> 600)
        @@ ("new_users" :> 200) @@ ("pages_per_session" :> draw.pages_per_session)
        @@ ("date_range" :> DateRange(start_date, end_date))

get_engagement_metrics(start_date, end_date, draw) ==
    ("bounce_rate" :> draw.bounce_rate)
        @@ ("average_session_duration" :> draw.average_session_duration)
        @@ ("pages_per_session" :> 200)
        @@ ("date_range" :> DateRange(start_date, end_date))

PageOrder == <<"/", "/about", "/products", "/contact", "/blog">>

\* pages[:limit], with Python's meaning of a negative limit.
UpTo(pages, limit) ==
    IF limit >= 0
    THEN Slice(pages, 0, limit)
    ELSE Slice(pages, 0, IF Len(pages) + limit > 0 THEN Len(pages) + limit ELSE 0)

\* get_top_pages; slicing with a limit that is not an integer raises TypeError.
get_top_pages(limit, draw) ==
    IF limit.type # "int"
    THEN [exception |-> TRUE, value |-> EmptyDict]
    ELSE LET sorted == UpTo(SortedDescending(PageOrder, draw.pageviews), limit.value)
         IN  [exception |-> FALSE,
              value |-> ("top_pages" :>
                            [i \in 1..Len(sorted) |->
                                ("page" :> sorted[i])
                                    @@ ("pageviews" :> draw.pageviews[sorted[i]])])
                        @@ ("total_pages_analyzed" :> Len(PageOrder))]

get_traffic_sources(draw) ==
    "channels" :> ( ("organic_search" :> draw.organic_search) @@ ("direct" :> draw.direct)
                    @@ ("social" :> draw.social) @@ ("referral" :> 500)
                    @@ ("paid_search" :> 300) @@ ("email" :> 200) )

get_demographic_data ==
    ("countries" :> << ("country" :> "United States") @@ ("percentage" :> 3500),
                       ("country" :> "United Kingdom") @@ ("percentage" :> 1000),
                       ("country" :> "Canada") @@ ("percentage" :> 500),
                       ("country" :> "Germany") @@ ("percentage" :> 400),
                       ("country" :> "Australia") @@ ("percentage" :> 300) >>)
        @@ ("devices" :> (("desktop" :> 4500) @@ ("mobile" :> 3000) @@ ("tablet" :> 500)))

IntegerLimit(n) == [type |-> "int", value |-> n]

DefaultLimit == IntegerLimit(10)

Handled(tool_name, parameters, raised, dispatched, body) ==
    [tool |-> tool_name, parameters |-> parameters, raised |-> raised,
     dispatched |-> dispatched, body |-> body]

\* Faulty variant: handle_tool_call without its except clause.
handle_tool_call_without_except(tool_name, parameters, draw) ==
    LET start_date == Get(parameters, "start_date", ServerDefaultStart)
        end_date == Get(parameters, "end_date", ServerDefaultEnd)
    IN  IF tool_name = "get_traffic_metrics"
        THEN Handled(tool_name, parameters, FALSE, "get_traffic_metrics",
                     get_traffic_metrics(start_date, end_date, draw))
        ELSE IF tool_name = "get_engagement_metrics"
        THEN Handled(tool_name, parameters, FALSE, "get_engagement_metrics",
                     get_engagement_metrics(start_date, end_date, draw))
        ELSE IF tool_name = "get_top_pages"
        THEN LET r == get_top_pages(Get(parameters, "limit", DefaultLimit), draw)
             IN  Handled(tool_name, parameters, r.exception, "get_top_pages", r.value)
        ELSE IF tool_name = "get_traffic_sources"
        THEN Handled(tool_name, parameters, FALSE, "get_traffic_sources",
                     get_traffic_sources(draw))
        ELSE IF tool_name = "get_demographic_data"
        THEN Handled(tool_name, parameters, FALSE, "get_demographic_data",
                     get_demographic_data)
        ELSE Handled(tool_name, parameters, FALSE, "none",
                     "error" :> <<"Unknown tool: ", tool_name>>)

\* GAMCPServer.handle_tool_call: the if/elif chain over the tool name inside
\* try / except Exception.
handle_tool_call(tool_name, parameters, draw) ==
    LET start_date == Get(parameters, "start_date", ServerDefaultStart)
        end_date == Get(parameters, "end_date", ServerDefaultEnd)
    IN  IF tool_name = "get_traffic_metrics"
        THEN Handled(tool_name, parameters, FALSE, "get_traffic_metrics",
                     get_traffic_metrics(start_date, end_date, draw))
        ELSE IF tool_name = "get_engagement_metrics"
        THEN Handled(tool_name, parameters, FALSE, "get_engagement_metrics",
                     get_engagement_metrics(start_date, end_date, draw))
        ELSE IF tool_name = "get_top_pages"
        THEN LET r == get_top_pages(Get(parameters, "limit", DefaultLimit), draw)
             IN  IF r.exception
                 THEN Handled(tool_name, parameters, FALSE, "get_top_pages",
                              ServerErrorBody)
                 ELSE Handled(tool_name, parameters, FALSE, "get_top_pages", r.value)
        ELSE IF tool_name = "get_traffic_sources"
        THEN Handled(tool_name, parameters, FALSE, "get_traffic_sources",
                     get_traffic_sources(draw))
        ELSE IF tool_name = "get_demographic_data"
        THEN Handled(tool_name, parameters, FALSE, "get_demographic_data",
                     get_demographic_data)
        ELSE Handled(tool_name, parameters, FALSE, "none",
                     "error" :> <<"Unknown tool: ", tool_name>>)

\* The random choices of the data store, each at the low end of its range.
LowDraw ==
    [ sessions |-> 800, pages_per_session |-> 210, bounce_rate |-> 3500,
      average_session_duration |-> 120, organic_search |-> 4000, direct |-> 2000,
      social |-> 1000,
      pageviews |-> ("/" :> 300) @@ ("/about" :> 200) @@ ("/products" :> 300)
                        @@ ("/contact" :> 50) @@ ("/blog" :> 180) ]

\* The random choices that matter to one tool; the others stay at the low end.
DrawsFor(tool_name) ==
    CASE tool_name = "get_traffic_metrics" ->
           {[LowDraw EXCEPT !.sessions = a, !.pages_per_session = b] :
               a \in SessionsDrawn, b \in PagesPerSessionDrawn}
      [] tool_name = "get_engagement_metrics" ->
           {[LowDraw EXCEPT !.bounce_rate = a, !.average_session_duration = b] :
               a \in BounceRateDrawn, b \in DurationDrawn}
      [] tool_name = "get_traffic_sources" ->
           {[LowDraw EXCEPT !.organic_search = a, !.direct = b, !.social = c] :
               a \in OrganicDrawn, b \in DirectDrawn, c \in SocialDrawn}
      [] OTHER -> {LowDraw}

\* Tool names a client may post, the advertised ones and two others.
PostedTools == AllTools \cup {"get_conversions", ""}

\* Parameters a client may post.
PostedParameters ==
    { EmptyDict,
      DateParameters(<<strftime(19722), strftime(19752)>>),
      "limit" :> IntegerLimit(3),
      "limit" :> IntegerLimit(0),
      "limit" :> IntegerLimit(-1),
      "limit" :> [type |-> "str", value |-> 5] }

InitServer ==
    /\ available_tools = AllTools
    /\ last_analysis_data = EmptyDict
    /\ pc = "server"
    /\ all_insights = <<>>
    /\ calls = <<>>
    /\ result = <<>>
    /\ clock \in StartDays
    /\ TurnInit
    /\ FetchIdle
    /\ EnvIdle
    /\ snapshot = EmptyDict
    /\ traffic_insights = <<>>
    /\ engagement_insights = <<>>
    /\ sources_insights = <<>>
    /\ report = <<>>
    /\ phase = "input"

\* POST /call_tool: call_tool_generic hands the request to handle_tool_call.
HandleToolCall ==
    /\ pc = "server"
    /\ phase = "input"
    /\ \E tool_name \in PostedTools :
       \E parameters \in PostedParameters :
       \E draw \in DrawsFor(tool_name) :
          served' = handle_tool_call(tool_name, parameters, draw)
    /\ UNCHANGED <<agentVars, pureVars, fetchVars, mainVars>>

\* The insights of one family of run_comprehensive_analysis: none when the
\* response carries an error.
FamilyInsights(response, insights) ==
    IF "error" \in DOMAIN response THEN <<>> ELSE insights

\* run_comprehensive_analysis against the bundled server, as its first
\* client: its three call_tool are answered by handle_tool_call with data of
\* the data store.
AnalyseServed ==
    /\ pc = "server"
    /\ phase = "input"
    /\ served = NoServed
    /\ \E t \in DrawsFor("get_traffic_metrics") :
       \E e \in DrawsFor("get_engagement_metrics") :
       \E c \in DrawsFor("get_traffic_sources") :
          LET window_now == DateParameters(<<strftime(clock - WindowDays), strftime(clock)>>)
              traffic_data == handle_tool_call("get_traffic_metrics", window_now, t).body
              engagement_data ==
                  handle_tool_call("get_engagement_metrics", window_now, e).body
              sources_call == handle_tool_call("get_traffic_sources", EmptyDict, c)
              sources_data == sources_call.body
              traffic == FamilyInsights(traffic_data, analyze_traffic_metrics(traffic_data))
              engagement == FamilyInsights(engagement_data,
                                           analyze_engagement_metrics(engagement_data))
              sources == FamilyInsights(sources_data, analyze_traffic_sources(sources_data))
          IN  /\ snapshot' = ("traffic" :> traffic_data) @@ ("engagement" :> engagement_data)
                                 @@ ("sources" :> sources_data)
              /\ traffic_insights' = traffic
              /\ engagement_insights' = engagement
              /\ sources_insights' = sources
              /\ report' = generate_summary_report(traffic \o engagement \o sources)
              /\ served' = sources_call
    /\ phase' = "evaluated"
    /\ UNCHANGED <<agentVars, fetchVars, mainVars>>

NextServer ==
    \/ HandleToolCall
    \/ AnalyseServed

SpecServer == InitServer /\ [][NextServer]_vars

Init ==
    /\ AgentFields
    /\ PureIdle
    /\ pc = "main"
    /\ MainIdle

Next ==
    \/ Usage
    \/ UnknownMode
    \/ ServerMode
    \/ ServerStops
    \/ AgentMode
    \/ BothMode
    \/ AfterSleep
    \/ Initialize
    \/ Tick
    \/ AnalysisMode
    \/ AnalyzeLine
    \/ Break
    \/ EmptyLine
    \/ EndOfInput
    \/ Interrupt
    \/ Close
    \/ AgentStops
    \/ RequestTraffic
    \/ FetchTraffic
    \/ RequestEngagement
    \/ FetchEngagement
    \/ RequestSources
    \/ FetchSources
    \/ Return
    \/ AnswerQuestion
    \/ PrintAnswer

Spec == Init /\ [][Next]_vars

\* The interactive agent and the analyzer programs.
InitAll == Init \/ InitAnalyzer

NextAll ==
    \/ Next
    \/ FetchData
    \/ DemoFetchData

SpecAll == InitAll /\ [][NextAll]_vars

-----------------------------------------------------------------------------
(* Specification of the evaluators as pure functions of one snapshot *)

InitEval ==
    /\ AgentInit
    /\ clock = 19752
    /\ snapshot \in Snapshots
    /\ traffic_insights = <<>>
    /\ engagement_insights = <<>>
    /\ sources_insights = <<>>
    /\ report = <<>>
    /\ phase = "input"

Evaluate ==
    /\ phase = "input"
    /\ traffic_insights' = analyze_traffic_metrics(snapshot)
    /\ engagement_insights' = analyze_engagement_metrics(snapshot)
    /\ sources_insights' = analyze_traffic_sources(snapshot)
    /\ report' = generate_summary_report(
                     analyze_traffic_metrics(snapshot)
                     \o analyze_engagement_metrics(snapshot)
                     \o analyze_traffic_sources(snapshot))
    /\ phase' = "evaluated"
    /\ UNCHANGED <<snapshot, agentVars, fetchVars, envVars>>

NextEval == Evaluate

SpecEval == InitEval /\ [][NextEval]_vars

-----------------------------------------------------------------------------
(* Specification of generate_summary_report over arbitrary insight lists *)

InitReport ==
    /\ available_tools = {}
    /\ last_analysis_data = EmptyDict
    /\ pc = "constructed"
    /\ all_insights \in SeqsUpTo(InsightPool, MaxInsights)
    /\ calls = <<>>
    /\ result = <<>>
    /\ clock = 19752
    /\ TurnInit
    /\ FetchIdle
    /\ EnvIdle
    /\ snapshot = EmptyDict
    /\ traffic_insights = <<>>
    /\ engagement_insights = <<>>
    /\ sources_insights = <<>>
    /\ report = <<>>
    /\ phase = "input"

Render ==
    /\ phase = "input"
    /\ report' = generate_summary_report(all_insights)
    /\ phase' = "evaluated"
    /\ UNCHANGED <<agentVars, fetchVars, envVars, snapshot, traffic_insights, engagement_insights,
                   sources_insights>>

NextReport == Render

SpecReport == InitReport /\ [][NextReport]_vars

-----------------------------------------------------------------------------
(* Vocabulary of the properties *)

Titles(insights) == [k \in 1..Len(insights) |-> insights[k].title]

TitleSeverities(insights) ==
    [k \in 1..Len(insights) |-> <<insights[k].title, insights[k].severity>>]

Occurrences(seq, x) == Cardinality({k \in 1..Len(seq) : seq[k] = x})

CountSeverity(insights, sev) ==
    Cardinality({k \in 1..Len(insights) : insights[k].severity = sev})

RECURSIVE Keep(_, _)
Keep(insights, sev) ==
    IF insights = <<>> THEN <<>>
    ELSE (IF Head(insights).severity = sev THEN <<Head(insights)>> ELSE <<>>)
         \o Keep(Tail(insights), sev)

RECURSIVE Recommendations(_)
Recommendations(insights) ==
    IF insights = <<>> THEN <<>>
    ELSE Head(insights).recommendations \o Recommendations(Tail(insights))

Texts(lines) == [k \in 1..Len(lines) |-> lines[k].text]

SeverityOrder == <<"critical", "high", "medium", "low">>

Headings == <<"CRITICAL ISSUES:", "HIGH PRIORITY ITEMS:",
              "OPTIMIZATION OPPORTUNITIES:", "POSITIVE INDICATORS:">>

IsHeading(line) ==
    line.fmt = "literal" /\ \E k \in 1..Len(Headings) : line.text = Headings[k]

\* The section headings and insight bullets of a rendered report, in order.
Outline(lines) ==
    Texts(SelectSeq(lines, LAMBDA l : l.fmt = "bullet" \/ IsHeading(l)))

RECURSIVE ExpectedOutline(_, _)
ExpectedOutline(insights, k) ==
    IF k > Len(SeverityOrder) THEN <<>>
    ELSE LET bucket == Keep(insights, SeverityOrder[k])
         IN  (IF bucket = <<>> THEN <<>> ELSE <<Headings[k]>> \o Titles(bucket))
             \o ExpectedOutline(insights, k + 1)

\* The numbered lines of the top-recommendations section.
Numbered(lines) == SelectSeq(lines, LAMBDA l : l.fmt = "numbered")

FallbackSentence ==
    <<[fmt |-> "literal",
       text |-> "No significant insights found in the current data.", num |-> 0]>>

AllEvaluated == traffic_insights \o engagement_insights \o sources_insights

\* A fetch succeeded when call_tool returned a body without an "error" key.
Succeeded(call) == ~call.raised /\ "error" \notin DOMAIN call.ret

InsightsOfCall(call) ==
    CASE call.tool = "get_traffic_metrics" -> analyze_traffic_metrics(call.ret)
      [] call.tool = "get_engagement_metrics" -> analyze_engagement_metrics(call.ret)
      [] call.tool = "get_traffic_sources" -> analyze_traffic_sources(call.ret)

RECURSIVE InsightsOfSucceeded(_)
InsightsOfSucceeded(cs) ==
    IF cs = <<>> THEN <<>>
    ELSE (IF Succeeded(Head(cs)) THEN InsightsOfCall(Head(cs)) ELSE <<>>)
         \o InsightsOfSucceeded(Tail(cs))

\* The fetch of a family failed: its call raised or returned an error value,
\* or its tool is not discovered (so that any call of it raises).
FamilyFailed(tool) ==
    \/ tool \notin available_tools
    \/ \E k \in 1..Len(calls) : calls[k].tool = tool /\ ~Succeeded(calls[k])

-----------------------------------------------------------------------------
(* Properties *)

\* C1: when run_comprehensive_analysis has returned, whatever the outcome of
\* each family's fetch, the returned text is the report of exactly the
\* insights of the families whose fetch succeeded; it is never an error
\* message.
C1_ReportKeepsSucceededFamilies ==
    pc = "returned" => result = generate_summary_report(InsightsOfSucceeded(calls))

\* C2: no invocation of call_tool raises; every failure is a returned value.
C2_CallToolNeverRaises ==
    \A k \in 1..Len(calls) : ~calls[k].raised

\* C3 (as stated): the end-to-end scenario yields six insights, in severity
\* buckets high 2, medium 3, low 1.
C3_ScenarioYieldsSixInsights ==
    (phase = "evaluated" /\ snapshot = Scenario) =>
        /\ TitleSeverities(AllEvaluated) =
               << <<"Low Traffic Volume", "high">>,
                  <<"High Bounce Rate", "high">>,
                  <<"Short Session Duration", "medium">>,
                  <<"High Dependency on Organic Search", "medium">>,
                  <<"Low Brand Recognition", "medium">>,
                  <<"Social Media Growth Opportunity", "low">> >>
        /\ CountSeverity(AllEvaluated, "high") = 2
        /\ CountSeverity(AllEvaluated, "medium") = 3
        /\ CountSeverity(AllEvaluated, "low") = 1

\* C3 (amended): the end-to-end scenario yields seven insights, the six named
\* ones and Low Page Engagement (pages_per_session is absent and reads as 0),
\* in severity buckets high 2, medium 4, low 1, and the report lists them
\* bucket by bucket.
C3_ScenarioYieldsSevenInsights ==
    (phase = "evaluated" /\ snapshot = Scenario) =>
        /\ TitleSeverities(AllEvaluated) =
               << <<"Low Traffic Volume", "high">>,
                  <<"Low Page Engagement", "medium">>,
                  <<"High Bounce Rate", "high">>,
                  <<"Short Session Duration", "medium">>,
                  <<"High Dependency on Organic Search", "medium">>,
                  <<"Low Brand Recognition", "medium">>,
                  <<"Social Media Growth Opportunity", "low">> >>
        /\ CountSeverity(AllEvaluated, "high") = 2
        /\ CountSeverity(AllEvaluated, "medium") = 4
        /\ CountSeverity(AllEvaluated, "low") = 1
        /\ Outline(report) =
               << "HIGH PRIORITY ITEMS:", "Low Traffic Volume", "High Bounce Rate",
                  "OPTIMIZATION OPPORTUNITIES:", "Low Page Engagement",
                  "Short Session Duration", "High Dependency on Organic Search",
                  "Low Brand Recognition",
                  "POSITIVE INDICATORS:", "Social Media Growth Opportunity" >>

C3_ScenarioEvaluated ==
    /\ phase = "evaluated"
    /\ snapshot = Scenario
    /\ Len(AllEvaluated) = 7

\* C4: the report's sections come in the order critical, high, medium, low
\* whatever the order of the input, an empty bucket has no section, and inside
\* a section the insights keep their relative input order.
C4_SectionsInSeverityOrder ==
    phase = "evaluated" => Outline(report) = ExpectedOutline(all_insights, 1)

C4_MixedArrivalRendered ==
    /\ phase = "evaluated"
    /\ TitleSeverities(all_insights) =
           << <<"Low Traffic Volume", "high">>, <<"Strong Traffic Performance", "low">>,
              <<"High Bounce Rate", "high">>, <<"Low Page Engagement", "medium">> >>
    /\ Outline(report) =
           << "HIGH PRIORITY ITEMS:", "Low Traffic Volume", "High Bounce Rate",
              "OPTIMIZATION OPPORTUNITIES:", "Low Page Engagement",
              "POSITIVE INDICATORS:", "Strong Traffic Performance" >>

\* C5: the numbered top recommendations are the first 5 entries of the
\* recommendations of the high insights followed by those of the medium
\* insights, numbered from 1; there are min(5, total) of them and none comes
\* from a low insight.
C5_TopRecommendations ==
    phase = "evaluated" =>
        LET pool == Recommendations(Keep(all_insights, "high"))
                    \o Recommendations(Keep(all_insights, "medium"))
            n == IF Len(pool) < 5 THEN Len(pool) ELSE 5
            top == Numbered(report)
            lowRecs == Recommendations(Keep(all_insights, "low"))
        IN  /\ Len(top) = n
            /\ \A k \in 1..n : top[k].text = pool[k] /\ top[k].num = k
            /\ \A k \in 1..Len(top) : Occurrences(lowRecs, top[k].text) = 0

C5_TruncatedToFive ==
    /\ phase = "evaluated"
    /\ Len(Recommendations(Keep(all_insights, "high"))) = 4
    /\ Len(Recommendations(Keep(all_insights, "medium"))) = 4
    /\ Len(Keep(all_insights, "low")) > 0
    /\ Len(Numbered(report)) = 5
    /\ Numbered(report)[5].text = Recommendations(Keep(all_insights, "medium"))[1]

\* C6: analyze_engagement_metrics emits High Bounce Rate iff bounce_rate > 70,
\* Good User Engagement iff bounce_rate < 40, neither iff 40 <= bounce_rate <= 70,
\* and never more than one bounce-rate insight (rates in hundredths).
C6_BounceRulesExclusive ==
    phase = "evaluated" =>
        LET bounce_rate == IF "bounce_rate" \in DOMAIN snapshot
                           THEN snapshot["bounce_rate"] ELSE 0
            nHigh == Occurrences(Titles(engagement_insights), "High Bounce Rate")
            nGood == Occurrences(Titles(engagement_insights), "Good User Engagement")
        IN  /\ nHigh + nGood <= 1
            /\ nHigh = 1 <=> bounce_rate > 7000
            /\ nGood = 1 <=> bounce_rate < 4000
            /\ nHigh + nGood = 0 <=> (4000 <= bounce_rate /\ bounce_rate <= 7000)

C6_BoundaryBounceRate ==
    /\ phase = "evaluated"
    /\ "bounce_rate" \in DOMAIN snapshot
    /\ snapshot["bounce_rate"] = 7000
    /\ Occurrences(Titles(engagement_insights), "High Bounce Rate") = 0
    /\ Occurrences(Titles(engagement_insights), "Good User Engagement") = 0

\* C7: analyze_traffic_metrics emits Low Traffic Volume iff sessions < 500 and
\* Strong Traffic Performance iff sessions > 1000, never both; at 500 neither
\* is emitted and at 1000 Strong Traffic Performance is not.
C7_SessionsRulesStrict ==
    phase = "evaluated" =>
        LET sessions == IF "sessions" \in DOMAIN snapshot THEN snapshot["sessions"] ELSE 0
            nLow == Occurrences(Titles(traffic_insights), "Low Traffic Volume")
            nStrong == Occurrences(Titles(traffic_insights), "Strong Traffic Performance")
        IN  /\ nLow <= 1 /\ nStrong <= 1 /\ nLow + nStrong <= 1
            /\ nLow = 1 <=> sessions < 500
            /\ nStrong = 1 <=> sessions > 1000
            /\ sessions = 500 => nLow + nStrong = 0
            /\ sessions = 1000 => nStrong = 0

C7_BoundarySessions ==
    /\ phase = "evaluated"
    /\ "sessions" \in DOMAIN snapshot
    /\ snapshot["sessions"] = 500
    /\ Occurrences(Titles(traffic_insights), "Low Traffic Volume") = 0
    /\ Occurrences(Titles(traffic_insights), "Strong Traffic Performance") = 0

\* C8: generate_summary_report returns the fallback sentence exactly when the
\* insight list is empty.
C8_FallbackIffEmpty ==
    phase = "evaluated" => (report = FallbackSentence <=> all_insights = <<>>)

C8_EmptyListRendered ==
    /\ phase = "evaluated"
    /\ all_insights = <<>>
    /\ report = FallbackSentence

\* C9: when the fetch of every one of the three families failed in a run
\* (error value returned, or tool not discovered), the returned text is the
\* fallback sentence.
C9_TotalFailureGivesFallback ==
    (pc = "returned" /\ \A tool \in AnalysisTools : FamilyFailed(tool)) =>
        result = FallbackSentence

-----------------------------------------------------------------------------
(* Question answering *)

IntentOrder == <<"traffic", "engagement", "sources", "top_pages", "demographics">>

KeywordsOf(family) ==
    CASE family = "traffic" -> TrafficWords
      [] family = "engagement" -> EngagementWords
      [] family = "sources" -> SourcesWords
      [] family = "top_pages" -> TopPagesWords
      [] family = "demographics" -> DemographicsWords

\* Positions in IntentOrder of the intents with a keyword inside the
\* lower-cased question.
Matching(q) ==
    {i \in 1..Len(IntentOrder) : AnyWordIn(KeywordsOf(IntentOrder[i]), lower(q))}

Earliest(positions) == CHOOSE i \in positions : \A j \in positions : i <= j

\* C11: answer_question tests the intents in the order traffic, engagement,
\* sources, top_pages, demographics against the lower-cased question; the
\* earliest intent with a keyword inside the question is the only family
\* fetched, and a question with no keyword gets the help sentence and no fetch.
C11_FirstMatchingIntentOnly ==
    pc = "answered" =>
        IF Matching(question) = {}
        THEN answer = HelpSentence /\ calls = <<>>
        ELSE /\ Len(calls) = 1
             /\ calls[1].tool = ToolOf(IntentOrder[Earliest(Matching(question))])

C11_SeveralIntentsMatch ==
    /\ pc = "answered"
    /\ Cardinality(Matching(question)) > 1
    /\ question # lower(question)
    /\ Len(calls) = 1
    /\ calls[1].sent = 1

\* C12: for "What's my bounce rate?" answered from {bounce_rate: 45,
\* average_session_duration: 150} the answer is the engagement sentence, shows
\* 45 and ends with the phrase that asks for improvement.
C12_BounceRate45AsksForImprovement ==
    ( /\ pc = "answered"
      /\ question = WhatsMyBounceRate
      /\ Len(calls) = 1
      /\ ~calls[1].raised
      /\ calls[1].ret = QAEngagement )
    => /\ answer.kind = "engagement"
       /\ answer.nums[1] = 4500
       /\ answer.texts =
            <<"Consider improving page content and loading speed to reduce bounce rate.">>

\* last_analysis_data of agents with other histories of analyses.
Histories ==
    { EmptyDict,
      ("traffic" :> ScenarioTraffic) @@ ("engagement" :> ScenarioEngagement)
          @@ ("sources" :> ScenarioSources) }

\* The transport outcome that hands call_tool the data this turn fetched.
Replay(made) ==
    IF made = <<>> \/ made[1].raised
    THEN Ok(EmptyDict)
    ELSE IF made[1].transport = "ok"
    THEN Ok(made[1].ret)
    ELSE Failed(made[1].transport)

\* C13: the answer depends on the question and on the data fetched in the
\* call only: an agent with any other history, asked the same question and
\* handed the same data, makes the same call and returns the same answer, and
\* the call leaves last_analysis_data as it found it.
C13_AnswerIndependentOfHistory ==
    pc = "answered" =>
        \A history \in Histories :
            LET r == answer_question([last_analysis_data |-> history], question,
                                     Replay(calls))
            IN  /\ r.answer = answer
                /\ r.calls = calls
                /\ r.self.last_analysis_data = history

C13_AnsweredAfterAnalysis ==
    /\ pc = "answered"
    /\ answer.kind = "engagement"
    /\ "engagement" \in DOMAIN last_analysis_data
    /\ last_analysis_data["engagement"] # calls[1].ret

-----------------------------------------------------------------------------
(* Time window of the time-bounded families *)

TimeBounded == {"get_traffic_metrics", "get_engagement_metrics"}

\* The 30 days ending on the day of the call.
Last30Days(today) == <<strftime(today - 30), strftime(today)>>

\* C14: when the caller gives no dates, every traffic or engagement request
\* is answered for the 30 days ending on the day of the call, in
\* run_comprehensive_analysis and in answer_question.
C14_DefaultWindowIsLast30Days ==
    \A i \in 1..Len(calls) :
        (calls[i].tool \in TimeBounded /\ calls[i].sent = 1)
            => ServerWindow(calls[i].parameters) = Last30Days(called_on)

-----------------------------------------------------------------------------
(* Fields of the agent between turns *)

\* C15: between the turns of the interactive loop every field of the agent
\* other than the transport handle has the value it had when the loop
\* started: last_analysis_data is the empty dict of the constructor.
C15_NoDataBetweenTurns ==
    pc = "ready" => last_analysis_data = EmptyDict

-----------------------------------------------------------------------------
(* Order of the family fetches *)

FamilyTools == <<"get_traffic_metrics", "get_engagement_metrics", "get_traffic_sources">>

Analysing ==
    pc \in {"fetch_traffic", "await_traffic", "fetch_engagement", "await_engagement",
            "fetch_sources", "await_sources", "returned"}

\* C17: in a run of run_comprehensive_analysis the fetches are issued in the
\* order traffic, engagement, sources, each after every earlier one has
\* returned, and never more than one request is in flight.
C17_FetchesSequential ==
    /\ Len(in_flight) <= 1
    /\ Analysing =>
          /\ Len(calls) <= Len(FamilyTools)
          /\ \A i \in 1..Len(calls) : calls[i].tool = FamilyTools[i]
          /\ in_flight # <<>> =>
                /\ Len(calls) < Len(FamilyTools)
                /\ in_flight[1].tool = FamilyTools[Len(calls) + 1]

C17_EngagementInFlight ==
    /\ pc = "await_engagement"
    /\ Len(calls) = 1
    /\ calls[1].sent = 1
    /\ Len(in_flight) = 1
    /\ in_flight[1].tool = "get_engagement_metrics"

-----------------------------------------------------------------------------
(* Fetch operations and the transport *)

\* The transport cannot reach the server, or the request times out.
Unreachable == {"connection", "timeout"}

\* C16: call_tool and both fetch_data return a failure value (an error dict,
\* None) and no metric data when the transport is unreachable or the
\* request times out.
C16_UnreachableGivesFailure ==
    /\ \A i \in 1..Len(calls) :
          calls[i].transport \in Unreachable =>
              ~calls[i].raised /\ DOMAIN calls[i].ret = {"error"}
    /\ \A i \in 1..Len(fetches) :
          fetches[i].transport \in Unreachable =>
              fetches[i].none /\ fetches[i].data = EmptyDict

\* Requests sent for one tool by the calls made so far.
RECURSIVE RequestsSent(_, _)
RequestsSent(made, tool) ==
    IF made = <<>>
    THEN 0
    ELSE (IF Head(made).tool = tool THEN Head(made).sent ELSE 0)
         + RequestsSent(Tail(made), tool)

\* C18: no fetch is retried: every call_tool and fetch_data sends at most one
\* request; call_tool and fetch_data of agent.py return the failure of a
\* failed request; a run of run_comprehensive_analysis sends at most one
\* request per family.
C18_NoRetry ==
    /\ \A i \in 1..Len(calls) :
          /\ calls[i].sent <= 1
          /\ calls[i].transport \in TransportFailures =>
                DOMAIN calls[i].ret = {"error"}
    /\ \A i \in 1..Len(fetches) :
          /\ fetches[i].sent <= 1
          /\ (fetches[i].variant = "agent" /\ fetches[i].transport \in TransportFailures)
                => fetches[i].none
    /\ Analysing => \A tool \in AnalysisTools : RequestsSent(calls, tool) <= 1

C18_FailedRequestsNotRepeated ==
    /\ pc = "returned"
    /\ Len(calls) = 3
    /\ \A i \in 1..Len(calls) : calls[i].transport \in TransportFailures

-----------------------------------------------------------------------------
(* Absent fields and the rules of the sources evaluator *)

MetricFields == {"sessions", "pages_per_session", "bounce_rate", "average_session_duration"}

ChannelFields == {"organic_search", "direct", "social"}

\* The snapshot with every absent metric field set to 0, an absent channels
\* mapping set to the empty mapping and every absent channel set to 0.
Filled(data) ==
    LET channels == IF "channels" \in DOMAIN data THEN data["channels"] ELSE EmptyDict
    IN  ("channels" :> (channels @@ [c \in ChannelFields |-> 0]))
            @@ data @@ [f \in MetricFields |-> 0]

\* C19: each evaluator yields for a snapshot with absent fields, an absent
\* channels mapping or absent channels the insights of the snapshot with
\* these set to 0 (the empty mapping); the empty snapshot yields Low Traffic
\* Volume and Low Page Engagement, Good User Engagement and Short Session
\* Duration, Low Brand Recognition and Social Media Growth Opportunity.
C19_AbsentReadAsZero ==
    phase = "evaluated" =>
        /\ traffic_insights = analyze_traffic_metrics(Filled(snapshot))
        /\ engagement_insights = analyze_engagement_metrics(Filled(snapshot))
        /\ sources_insights = analyze_traffic_sources(Filled(snapshot))
        /\ snapshot = EmptyDict =>
              /\ Titles(traffic_insights) = <<"Low Traffic Volume", "Low Page Engagement">>
              /\ Titles(engagement_insights) =
                     <<"Good User Engagement", "Short Session Duration">>
              /\ Titles(sources_insights) =
                     <<"Low Brand Recognition", "Social Media Growth Opportunity">>

C19_EmptySnapshotEvaluated ==
    /\ phase = "evaluated"
    /\ snapshot = EmptyDict
    /\ Len(AllEvaluated) = 6

SourcesTitles ==
    <<"High Dependency on Organic Search", "Low Brand Recognition",
      "Social Media Growth Opportunity">>

\* The titles the three rules give for the channel shares of a snapshot.
ExpectedSourcesTitles(data) ==
    LET channels == Filled(data)["channels"]
    IN  (IF channels["organic_search"] > 7000 THEN <<SourcesTitles[1]>> ELSE <<>>)
        \o (IF channels["direct"] < 2000 THEN <<SourcesTitles[2]>> ELSE <<>>)
        \o (IF channels["social"] < 1000 THEN <<SourcesTitles[3]>> ELSE <<>>)

\* C20: analyze_traffic_sources emits High Dependency on Organic Search iff
\* organic_search > 70, Low Brand Recognition iff direct < 20, Social Media
\* Growth Opportunity iff social < 10, always in that order, and every one of
\* the 8 subsets of the three is emitted for some snapshot.
C20_SourcesRulesIndependent ==
    /\ phase = "evaluated" => Titles(sources_insights) = ExpectedSourcesTitles(snapshot)
    /\ \A subset \in SUBSET {1, 2, 3} :
          \E data \in Snapshots :
              {k \in 1..3 : \E i \in 1..Len(analyze_traffic_sources(data)) :
                                analyze_traffic_sources(data)[i].title = SourcesTitles[k]}
                  = subset

C20_OrganicAndSocialOnly ==
    /\ phase = "evaluated"
    /\ Titles(sources_insights) =
           <<"High Dependency on Organic Search", "Social Media Growth Opportunity">>

-----------------------------------------------------------------------------
(* The rule table *)

Row(family, field, below, threshold, kind, severity) ==
    [family |-> family, field |-> field, below |-> below, threshold |-> threshold,
     kind |-> kind, severity |-> severity]

\* The nine rows: family, field, whether the rule fires below (TRUE) or above
\* (FALSE) the threshold, threshold, kind, severity.
RuleTable ==
    << Row("traffic", "sessions", TRUE, 500, "alert", "high"),
       Row("traffic", "sessions", FALSE, 1000, "performance", "low"),
       Row("traffic", "pages_per_session", TRUE, 200, "optimization", "medium"),
       Row("engagement", "bounce_rate", FALSE, 7000, "alert", "high"),
       Row("engagement", "bounce_rate", TRUE, 4000, "performance", "low"),
       Row("engagement", "average_session_duration", TRUE, 60, "optimization", "medium"),
       Row("sources", "organic_search", FALSE, 7000, "alert", "medium"),
       Row("sources", "direct", TRUE, 2000, "optimization", "medium"),
       Row("sources", "social", TRUE, 1000, "recommendation", "low") >>

\* The value a row tests, absent fields read as 0.
Tested(row, data) ==
    IF row.family = "sources"
    THEN Filled(data)["channels"][row.field]
    ELSE Filled(data)[row.field]

Holds(row, data) ==
    IF row.below THEN Tested(row, data) < row.threshold
    ELSE Tested(row, data) > row.threshold

\* <<kind, severity, value>> of the rows of a family whose condition holds.
RowsHolding(family, data) ==
    LET rows == SelectSeq(RuleTable, LAMBDA row : row.family = family /\ Holds(row, data))
    IN  [k \in 1..Len(rows) |-> <<rows[k].kind, rows[k].severity, Tested(rows[k], data)>>]

KindSeverityValue(insights) ==
    [k \in 1..Len(insights) |->
        <<insights[k].type, insights[k].severity, insights[k].description.val>>]

\* C21: for every snapshot each evaluator emits exactly the rows of the rule
\* table whose condition holds, in table order (not sorted by severity), each
\* with the kind and severity of its row and the value it tested.
C21_RowsOfTheRuleTable ==
    phase = "evaluated" =>
        /\ KindSeverityValue(traffic_insights) = RowsHolding("traffic", snapshot)
        /\ KindSeverityValue(engagement_insights) = RowsHolding("engagement", snapshot)
        /\ KindSeverityValue(sources_insights) = RowsHolding("sources", snapshot)

C21_LowBeforeMedium ==
    /\ phase = "evaluated"
    /\ Len(engagement_insights) = 2
    /\ engagement_insights[1].severity = "low"
    /\ engagement_insights[2].severity = "medium"

-----------------------------------------------------------------------------
(* Severities of evaluator output *)

RECURSIVE Under(_, _, _)
\* The bullets of an outline that stand under one heading.
Under(outline, heading, inside) ==
    IF outline = <<>> THEN <<>>
    ELSE IF \E k \in 1..Len(Headings) : Head(outline) = Headings[k]
    THEN Under(Tail(outline), heading, Head(outline) = heading)
    ELSE (IF inside THEN <<Head(outline)>> ELSE <<>>)
         \o Under(Tail(outline), heading, inside)

Bullets(lines) == Texts(SelectSeq(lines, LAMBDA l : l.fmt = "bullet"))

\* C28: every insight of the evaluators is high, medium or low; in the
\* report built from them each insight is rendered once, in the section of
\* its severity, the critical section is absent, and the insights rendered
\* per section sum to the number of insights.
C28_EvaluatorSeverities ==
    phase = "evaluated" =>
        /\ \A k \in 1..Len(AllEvaluated) :
              AllEvaluated[k].severity \in {"high", "medium", "low"}
        /\ \A k \in 1..Len(Headings) :
              Under(Outline(report), Headings[k], FALSE)
                  = Titles(Keep(AllEvaluated, SeverityOrder[k]))
        /\ \A k \in 1..Len(AllEvaluated) :
              Occurrences(Bullets(report), AllEvaluated[k].title) = 1
        /\ Occurrences(Texts(report), "CRITICAL ISSUES:") = 0
        /\ Len(Under(Outline(report), Headings[2], FALSE))
               + Len(Under(Outline(report), Headings[3], FALSE))
               + Len(Under(Outline(report), Headings[4], FALSE))
             = Len(AllEvaluated)

C28_ThreeSectionsRendered ==
    /\ phase = "evaluated"
    /\ CountSeverity(AllEvaluated, "high") = 1
    /\ CountSeverity(AllEvaluated, "medium") > 1
    /\ CountSeverity(AllEvaluated, "low") > 0
    /\ Len(Bullets(report)) = Len(AllEvaluated)

-----------------------------------------------------------------------------
(* Value returned by answer_question *)

\* C25: for every question and every outcome of the fetch, answer_question
\* returns a string (a templated answer, the help sentence or an error
\* sentence), never an absent value.
C25_AnswerIsAString ==
    pc = "answered" =>
        answer.kind \in {"traffic", "engagement", "sources", "top_pages", "demographics",
                         "help", "error"}

-----------------------------------------------------------------------------
(* Mock data mode of the demo agent *)

Last(seq) == seq[Len(seq)]

\* A fetch_data call of the demo agent is made in this step.
DemoFetched == fetches' # fetches /\ Last(fetches').variant = "demo"

\* C27: use_mock_data of the demo agent never goes back to false and turns
\* true only after a connection failure or timeout; while it is true
\* fetch_data sends nothing and returns the mock data for every request type;
\* in server mode a request type outside tools_map returns no data; an HTTP
\* error or invalid JSON returns no data and leaves the flag as it was.
C27_MockDataModeMonotone ==
    [][ /\ use_mock_data => use_mock_data'
        /\ (~use_mock_data /\ use_mock_data') =>
              DemoFetched /\ Last(fetches').transport \in {"connection", "timeout"}
        /\ (DemoFetched /\ use_mock_data) =>
              /\ Last(fetches').sent = 0
              /\ ~Last(fetches').none
              /\ Last(fetches').data = mock_data
        /\ (DemoFetched /\ ~use_mock_data
              /\ lower(Last(fetches').request_type) \notin DemoToolsMap) =>
              /\ Last(fetches').none
              /\ Last(fetches').sent = 0
              /\ ~use_mock_data'
        /\ (DemoFetched /\ Last(fetches').transport \in {"http_error", "decode_error"}) =>
              /\ Last(fetches').none
              /\ use_mock_data' = use_mock_data
      ]_vars

C27_MockDataForUnmappedRequest ==
    /\ use_mock_data
    /\ Len(fetches) = 2
    /\ fetches[1].variant = "demo"
    /\ fetches[1].transport = "timeout"
    /\ fetches[2].variant = "demo"
    /\ fetches[2].request_type = TopPagesRequest
    /\ fetches[2].data = mock_data

-----------------------------------------------------------------------------
(* The bundled server *)

\* C24: handle_tool_call never raises; a tool name outside the tool table
\* gets {"error": "Unknown tool: <name>"}; each of the five names of the
\* table is dispatched to its data-store operation; the advertised tools are
\* the handled tools.
C24_ServerHandlesAdvertisedTools ==
    /\ served # NoServed =>
          /\ ~served.raised
          /\ served.tool \notin AllTools =>
                /\ served.dispatched = "none"
                /\ served.body = ("error" :> <<"Unknown tool: ", served.tool>>)
          /\ served.tool \in AllTools => served.dispatched = served.tool
    /\ { t \in PostedTools :
            \E parameters \in PostedParameters :
                handle_tool_call(t, parameters, LowDraw).dispatched # "none" }
         = AllTools

C24_FailureInsideOperation ==
    /\ served.tool = "get_top_pages"
    /\ "limit" \in DOMAIN served.parameters
    /\ served.body = ServerErrorBody

\* C26: with the values the data store can generate, the analysis emits only
\* low insights (Strong Traffic Performance, Good User Engagement); the
\* report is the fallback sentence or has the positive-indicators section
\* alone, without top recommendations.
C26_BundledServerOnlyLow ==
    (pc = "server" /\ phase = "evaluated") =>
        /\ \A k \in 1..Len(AllEvaluated) :
              /\ AllEvaluated[k].severity = "low"
              /\ AllEvaluated[k].title
                    \in {"Strong Traffic Performance", "Good User Engagement"}
        /\ IF AllEvaluated = <<>>
           THEN report = FallbackSentence
           ELSE /\ Outline(report) = <<"POSITIVE INDICATORS:">> \o Titles(AllEvaluated)
                /\ Numbered(report) = <<>>
                /\ Occurrences(Texts(report), "TOP RECOMMENDATIONS:") = 0

C26_BothPositiveIndicators ==
    /\ pc = "server"
    /\ phase = "evaluated"
    /\ Titles(AllEvaluated) = <<"Strong Traffic Performance", "Good User Engagement">>
    /\ snapshot["sources"]["channels"]["direct"] = 2000

-----------------------------------------------------------------------------
(* main, start_agent and the interactive loop *)

C22_RecognisedArgvs ==
    { << <<"s", "e", "r", "v", "e", "r">> >>,
      << <<"A", "g", "e", "n", "t">> >>,
      << <<"B", "O", "T", "H">> >>,
      << <<"i", "n", "t", "e", "r", "a", "c", "t", "i", "v", "e">> >> }

\* C22: when the mode argument is missing or, whatever its case, is none of
\* server, agent, both, interactive, main prints a usage message and exits
\* with status 1 without starting the server subprocess or the agent; a
\* recognised mode in any case never takes that exit.
C22_UsageExitWhenModeUnrecognised ==
    /\ (argv \notin C22_RecognisedArgvs /\ pc # "main") =>
          /\ pc = "exited"
          /\ exit_status = "exit_1"
          /\ printed # <<>>
          /\ server_process = "none"
          /\ mode = "none"
          /\ available_tools = {}
          /\ calls = <<>>
          /\ closed = 0
    /\ (argv \in C22_RecognisedArgvs /\ pc # "main") =>
          /\ exit_status # "exit_1"
          /\ printed = <<>>
          /\ server_process # "none" \/ mode # "none"

C22_UnknownModeExited ==
    /\ argv = << <<"b", "o", "g", "u", "s">> >>
    /\ pc = "exited"
    /\ exit_status = "exit_1"

C23_QuitLines == { <<" ", "Q", "u", "i", "t", " ">>, <<"E", "X", "I", "T">>, <<"q">> }

C23_AnalyzeLines == { <<"A", "n", "a", "l", "y", "z", "e", " ">> }

C23_EmptyLines == { <<>>, <<" ", " ">> }

C23_PaddedHello == <<" ", "h", "e", "l", "l", "o", " ", " ">>

C23_AnalysisTurn ==
    {"fetch_traffic", "await_traffic", "fetch_engagement", "await_engagement",
     "fetch_sources", "await_sources", "returned"}

\* The line of the turn in progress is dispatched on its trimmed, lower-cased
\* text.
C23_LineDispatched ==
    (mode = "interactive" /\ input_line # <<>>) =>
        LET input == input_line[1]
        IN  /\ input \in C23_QuitLines =>
                  pc \in {"loop_ended", "agent_returned", "exited"}
            /\ input \in C23_AnalyzeLines =>
                  pc \in C23_AnalysisTurn
            /\ input \in C23_EmptyLines =>
                  /\ pc = "ready"
                  /\ calls = <<>>
                  /\ in_flight = <<>>
            /\ input \notin C23_QuitLines \cup C23_AnalyzeLines \cup C23_EmptyLines =>
                  /\ pc = "answered"
                  /\ question = IF input = C23_PaddedHello THEN Hello ELSE input

\* C23: in interactive mode quit, exit or q (trimmed, any case) ends the
\* loop, analyze runs one comprehensive analysis, any other non-empty text is
\* passed to answer_question, an empty line triggers no fetch, and the turn
\* of every line that is not a quit command ends at the prompt whatever its
\* fetches did.
C23_InteractiveLineDispatch ==
    /\ []C23_LineDispatched
    /\ [][ (mode = "interactive" /\ pc \in {"returned", "answered"}) => pc' = "ready" ]_vars
    /\ [][ (mode = "interactive" /\ pc = "ready" /\ input_line' # <<>>
              /\ input_line'[1] \in C23_EmptyLines) =>
                 /\ pc' = "ready"
                 /\ in_flight' = in_flight
                 /\ calls' = calls ]_vars

C23_PromptAfterFailedAnalysis ==
    /\ mode = "interactive"
    /\ pc = "returned"
    /\ input_line = << <<"A", "n", "a", "l", "y", "z", "e", " ">> >>
    /\ \E i \in 1..Len(calls) : calls[i].transport \in TransportFailures

C29_AgentLeft ==
    \/ pc \in {"agent_returned", "agent_raised", "agent_interrupted"}
    \/ pc = "exited" /\ mode # "none"

\* C29: start_agent closes the agent exactly once on every way out (analysis
\* completed, loop ended by a quit command or Ctrl+C, initialize or the
\* analysis raised), never before initialize has been attempted, and nothing
\* is fetched once the agent is closed.
C29_ClosedExactlyOnce ==
    /\ [](closed <= 1)
    /\ [](pc \in {"main", "serving", "sleeping", "constructed"} => closed = 0)
    /\ [](C29_AgentLeft => closed = 1)
    /\ [](closed >= 1 => in_flight = <<>>)
    /\ [][ closed >= 1 => (in_flight' = in_flight /\ calls' = calls) ]_vars

C29_ClosedAfterFailedInitialize ==
    /\ mode = "analyze"
    /\ available_tools = {}
    /\ pc = "agent_raised"
    /\ closed = 1

\* C30: in mode both the agent runs only while the spawned server subprocess
\* is there, and main leaves with the subprocess terminated on every way
\* out: analysis completed, initialize failed, Ctrl+C.
C30_ServerTerminatedInModeBoth ==
    argv = << <<"B", "O", "T", "H">> >> =>
        /\ mode # "none" => server_process # "none"
        /\ (mode # "none" /\ pc # "exited") => server_process = "running"
        /\ pc = "exited" => server_process = "terminated"

C30_TerminatedAfterAgentFailure ==
    /\ argv = << <<"B", "O", "T", "H">> >>
    /\ pc = "exited"
    /\ exit_status = "exception"
    /\ server_process = "terminated"

====
